---------------------------- MODULE Spec2Model ----------------------------
(***************************************************************************)
(* Market-data aggregation engine of WealthPilot (services/stockData.js):  *)
(* the quote aggregator (getQuote, getQuotes) with its 30 s cache and      *)
(* provider failover, and the history aggregator (getHistoricalData,       *)
(* getStoredHistoricalData, fetchAndStoreHistoricalData) with its 24 h     *)
(* freshness window and transactional replace, hasRecentData and          *)
(* getStockMetadata; and the snapshot service (services/                   *)
(* portfolioSnapshot.js): recordDailySnapshot, generateHistoricalSnapshots.*)
(*                                                                         *)
(* Every `await` of the code is a step of a caller, so callers interleave  *)
(* exactly where the event loop lets them.  Time is in milliseconds.       *)
(***************************************************************************)
EXTENDS Integers, Sequences, FiniteSets, TLC

VARIABLES
    now,          \* Date.now()
    stockQuote,   \* table StockQuote: uppercased symbol -> row or Null
    gq,           \* per caller: the frame of its getQuote call
    gqs,          \* per caller: the frame of its getQuotes call
    stockHistory, \* table StockHistory: symbol -> set of rows (unique per date)
    stockMetadata,\* table StockMetadata: symbol -> row or Null
    committed,    \* per symbol: every set of rows a transaction has committed
    gh,           \* per caller: the frame of its history call
    portfolioSnapshot, \* table PortfolioSnapshot: a set of rows
    gs,           \* per caller: the frame of its snapshot call
    job,          \* per caller: the frame of its recordAllUserSnapshots call
    budget        \* top-level calls still to be started, ticks still to pass

vars == <<now, stockQuote, gq, gqs, stockHistory, stockMetadata, committed, gh,
          portfolioSnapshot, gs, job, budget>>

quoteVars == <<stockQuote, gq, gqs>>
histVars == <<stockHistory, stockMetadata, committed, gh>>
snapVars == <<portfolioSnapshot, gs, job>>

-----------------------------------------------------------------------------
(* Bounds of the model *)

MaxCalls == 2       \* top-level calls started in one behaviour
MaxTicks == 2       \* clock advances in one behaviour
MaxQuotesCalls == 1 \* getQuotes calls started in one behaviour

(* Program constants *)

CACHE_TTL_MS == 30000
ONE_DAY_MS == 24 * 60 * 60 * 1000

Procs == {"A", "B"}

\* The caller of the behaviours in which calls do not overlap.
Main == "A"

First == "A"

Second == "B"

Null == [null |-> TRUE]

\* A value that may be null, where the value is a number or a sequence
Option(v) == <<v>>

None == <<>>

-----------------------------------------------------------------------------
(* Symbols.  "aapl" is a caller's lower-case spelling of "AAPL". *)

InputSymbols == {"aapl", "MSFT"}

toUpperCase(s) == IF s = "aapl" THEN "AAPL" ELSE s

Keys == {toUpperCase(s) : s \in InputSymbols}

-----------------------------------------------------------------------------
(* JavaScript numbers as far as BigInt() cares: whole + half/2. *)

Num(w, h) == [whole |-> w, half |-> h]

Truthy(n) == n.whole # 0 \/ n.half # 0

\* BigInt(x) throws a RangeError on a number that is not an integer.
BigIntThrows(n) == n.half # 0

BigInt(n) == n.whole

parseInt(n) == n.whole

-----------------------------------------------------------------------------
(* Quote providers.  A provider's answer to one request: a transport or   *)
(* HTTP error, a payload without the quote, or a payload with it.  Each   *)
(* provider reports its own name, price and change, so that the origin of *)
(* every field of a Quote can be told.                                    *)

sources == <<"FMP", "Finnhub", "TwelveData", "Yahoo", "AlphaVantage">>

SourceIndex(a) == CHOOSE i \in 1..Len(sources) : sources[i] = a

ProviderPrice(a) == 100 + SourceIndex(a)

ProviderData(a, price, volume) ==
    [kind |-> "data", name |-> a, price |-> price,
     previousClose |-> price - SourceIndex(a), change |-> SourceIndex(a),
     volume |-> volume, marketCap |-> Num(5000, 0)]

Responses(a) ==
    { [kind |-> "error"], [kind |-> "empty"],
      ProviderData(a, 0, Num(1000, 0)),
      ProviderData(a, ProviderPrice(a), Num(1000, 0)),
      ProviderData(a, ProviderPrice(a), Num(1000, 1)) }

\* Every outcome of a request: the answers above, a provider's error envelope
\* (bad key, rate limit) and a payload that is not what the adapter expects
Outcomes(a) == Responses(a) \cup {[kind |-> "envelope"], [kind |-> "malformed"]}

\* The fields every adapter fills in (previousClose, open, high and low travel
\* with price and are not modelled apart from it).
Result(name, price, change, volume, marketCap, source) ==
    [name |-> name, price |-> price, changeAmount |-> change,
     volume |-> volume, marketCap |-> marketCap, source |-> source]

\* What reaches the caller of a function whose body threw
Threw == [threw |-> TRUE]

\* A body without try and catch
Uncaught(v) == v

\* try { return v } catch (error) { console.log(...); return null }
TryCatch(v) == IF v = Threw THEN Null ELSE v

\* The object an adapter builds from a payload that has the outer shape and
\* none of the fields: name falls back to the symbol, price is undefined or
\* NaN.  Neither is truthy nor > 0, and it is 0 here.
Hollow(symbol, source) == Result(symbol, 0, 0, Num(0, 0), Num(0, 0), source)

\* yahooFinance.quote validates what it receives and throws on anything else
fetchFromYahoo(symbol, r) ==
    TryCatch(IF r.kind \in {"error", "envelope", "malformed"} THEN Threw
             ELSE IF r.kind = "data" /\ r.price # 0
             THEN Result(r.name, r.price, r.change, r.volume, r.marketCap, "yahoo")
             ELSE Null)

\* axios.get throws on a transport error; response.data[0] of a string is its
\* first character
fetchFromFMP(symbol, r) ==
    TryCatch(IF r.kind = "error" THEN Threw
             ELSE IF r.kind = "data"
             THEN Result(r.name, r.price, r.change, r.volume, r.marketCap, "fmp")
             ELSE IF r.kind = "malformed" THEN Hollow(symbol, "fmp")
             ELSE Null)

fetchFromFinnhub(symbol, r) ==
    TryCatch(IF r.kind = "error" THEN Threw
             ELSE IF r.kind = "data" /\ r.price > 0
             THEN Result(symbol, r.price, r.change, Num(0, 0), Num(0, 0), "finnhub")
             ELSE Null)

fetchFromTwelveData(symbol, r) ==
    TryCatch(IF r.kind = "error" THEN Threw
             ELSE IF r.kind = "data"
             THEN Result(r.name, r.price, r.price - r.previousClose,
                         Num(parseInt(r.volume), 0), Num(0, 0), "twelvedata")
             ELSE Null)

\* {'Global Quote': {}} is what the provider sends for a symbol it does not know
fetchFromAlphaVantage(symbol, r) ==
    TryCatch(IF r.kind = "error" THEN Threw
             ELSE IF r.kind = "data"
             THEN Result(symbol, r.price, r.change,
                         Num(parseInt(r.volume), 0), Num(0, 0), "alphavantage")
             ELSE IF r.kind = "malformed" THEN Hollow(symbol, "alphavantage")
             ELSE Null)

SourceFn(a, symbol, r) ==
    CASE a = "FMP" -> fetchFromFMP(symbol, r)
      [] a = "Finnhub" -> fetchFromFinnhub(symbol, r)
      [] a = "TwelveData" -> fetchFromTwelveData(symbol, r)
      [] a = "Yahoo" -> fetchFromYahoo(symbol, r)
      [] a = "AlphaVantage" -> fetchFromAlphaVantage(symbol, r)

-----------------------------------------------------------------------------
(* getQuote *)

\* A cache that lives 3 s
IsFreshQuoteShortLived(cached, t) == t - cached.updatedAt < 3000

\* age < 30000
IsFreshQuote(cached, t) == t - cached.updatedAt < CACHE_TTL_MS

\* if (result), whatever its price
ValidResultAnyPrice(result) == result # Null /\ result # Threw

\* if (result && result.price > 0), inside the try of the loop
ValidResult(result) == result # Null /\ result # Threw /\ result.price > 0

\* Building quoteData throws when BigInt() meets a non-integer.
QuoteDataThrows(result) ==
    \/ Truthy(result.volume) /\ BigIntThrows(result.volume)
    \/ Truthy(result.marketCap) /\ BigIntThrows(result.marketCap)

\* null volume and marketCap are 0 here.
QuoteData(upperSymbol, result) ==
    [symbol |-> upperSymbol, name |-> result.name, price |-> result.price,
     changeAmount |-> result.changeAmount,
     volume |-> IF Truthy(result.volume) THEN BigInt(result.volume) ELSE 0,
     marketCap |-> IF Truthy(result.marketCap) THEN BigInt(result.marketCap) ELSE 0]

\* The row an upsert leaves: the data, stamped by the store.
QuoteRow(quoteData, t) ==
    [symbol |-> quoteData.symbol, name |-> quoteData.name, price |-> quoteData.price,
     changeAmount |-> quoteData.changeAmount, volume |-> quoteData.volume,
     marketCap |-> quoteData.marketCap, updatedAt |-> t]

\* A create that leaves an existing row as it is
UpsertQuoteCreateOnly(table, quoteData, t) ==
    IF table[quoteData.symbol] # Null THEN table
    ELSE [table EXCEPT ![quoteData.symbol] = QuoteRow(quoteData, t)]

UpsertQuote(table, quoteData, t) ==
    [table EXCEPT ![quoteData.symbol] = QuoteRow(quoteData, t)]

IdleQuote ==
    [pc |-> "idle", symbol |-> "", cached |-> Null, t0 |-> 0, idx |-> 0,
     quoteData |-> Null, ret |-> Null, calls |-> <<>>, wrote |-> "none",
     valid |-> <<>>, inFlight |-> {}, startedAt |-> 0, endedAt |-> 0,
     response |-> Null, result |-> Null]

\* const upperSymbol = symbol.toUpperCase()
NewQuoteFrame(symbol) ==
    [IdleQuote EXCEPT !.pc = "findCached", !.symbol = toUpperCase(symbol)]

\* Exhaustion that forgets the cached row
NextSourceNoFallback(f) ==
    IF f.idx < Len(sources)
    THEN [f EXCEPT !.idx = f.idx + 1]
    ELSE [f EXCEPT !.pc = "returned", !.ret = Null]

\* What the frame becomes once source idx is done with and nothing was returned.
NextSource(f) ==
    IF f.idx < Len(sources)
    THEN [f EXCEPT !.idx = f.idx + 1]
    ELSE [f EXCEPT !.pc = "returned", !.ret = f.cached]

IdleQuotes ==
    [pc |-> "idle", symbols |-> <<>>, pos |-> 0, results |-> <<>>, rets |-> <<>>]

IdleHistory ==
    [pc |-> "idle", op |-> "", symbol |-> "", days |-> 0, forceRefresh |-> FALSE,
     metadata |-> Null, checked |-> "", historyData |-> None, tried |-> <<>>,
     outcomes |-> <<>>, stored |-> FALSE, readAt |-> 0, metaAtRead |-> Null,
     quoteCalls |-> 0, ret |-> <<>>, inFlight |-> {}, startedAt |-> 0,
     endedAt |-> 0]

IdleSnapshot ==
    [pc |-> "idle", op |-> "", userId |-> "", days |-> 0, today |-> 0,
     allHoldings |-> <<>>, symbols |-> <<>>, historicalData |-> <<>>, pos |-> 0,
     i |-> 0, snapshots |-> <<>>, quotesAsked |-> FALSE, replaced |-> Null,
     failed |-> 0, ret |-> Null]

\* The frame of recordAllUserSnapshots: the users found, the position of the
\* loop, and what the recordDailySnapshot calls made so far were given and gave
IdleJob ==
    [pc |-> "idle", users |-> <<>>, pos |-> 0, called |-> <<>>, todays |-> <<>>,
     results |-> <<>>, failed |-> 0]

Idle(p) ==
    /\ gq[p].pc \in {"idle", "returned"}
    /\ gqs[p].pc \in {"idle", "returned"}
    /\ gh[p].pc \in {"idle", "returned", "threw"}
    /\ gs[p].pc \in {"idle", "returned", "threw"}
    /\ job[p].pc \in {"idle", "returned", "threw"}

Spend == [budget EXCEPT !.calls = budget.calls - 1]

GetQuoteCall(p, symbol) ==
    /\ Idle(p)
    /\ budget.calls > 0
    /\ budget' = Spend
    /\ gq' = [gq EXCEPT ![p] = NewQuoteFrame(symbol)]
    /\ gqs' = [gqs EXCEPT ![p] = IdleQuotes]
    /\ gh' = [gh EXCEPT ![p] = IdleHistory]
    /\ UNCHANGED <<now, stockQuote, stockHistory, stockMetadata, committed, snapVars>>

\* prisma.stockQuote.findUnique, then the cache check
GetQuoteFindCached(p) ==
    /\ gq[p].pc = "findCached"
    /\ LET cached == stockQuote[gq[p].symbol]
           f == [gq[p] EXCEPT !.cached = cached, !.t0 = now]
       IN gq' = [gq EXCEPT ![p] =
                    IF cached # Null /\ IsFreshQuote(cached, now)
                    THEN [f EXCEPT !.pc = "returned", !.ret = cached]
                    ELSE [f EXCEPT !.pc = "fetch", !.idx = 1]]
    /\ UNCHANGED <<now, stockQuote, gqs, histVars, budget, snapVars>>

\* one turn of the loop over sources: the adapter call and what follows it
GetQuoteFetch(p) ==
    /\ gq[p].pc = "fetch"
    /\ \E r \in Responses(sources[gq[p].idx]) :
         LET source == sources[gq[p].idx]
             result == SourceFn(source, gq[p].symbol, r)
             f == [gq[p] EXCEPT !.calls = Append(@, source),
                                !.valid = IF ValidResult(result)
                                          THEN Append(@, source) ELSE @]
         IN gq' = [gq EXCEPT ![p] =
                     IF ValidResult(result) /\ ~QuoteDataThrows(result)
                     THEN [f EXCEPT !.pc = "upsert",
                                    !.quoteData = QuoteData(f.symbol, result)]
                     ELSE NextSource(f)]
    /\ UNCHANGED <<now, stockQuote, gqs, histVars, budget, snapVars>>

\* An upsert without its .catch: the rejection lands in the loop's catch
UpsertReturnUncaught(f, ok) ==
    IF ok
    THEN [f EXCEPT !.pc = "returned", !.ret = f.quoteData, !.wrote = "ok"]
    ELSE [NextSource([f EXCEPT !.pc = "fetch"]) EXCEPT !.wrote = "failed"]

\* await prisma.stockQuote.upsert(...).catch(...); return quoteData
UpsertReturn(f, ok) ==
    [f EXCEPT !.pc = "returned", !.ret = f.quoteData,
              !.wrote = IF ok THEN "ok" ELSE "failed"]

GetQuoteUpsert(p) ==
    /\ gq[p].pc = "upsert"
    /\ \E ok \in BOOLEAN :
         /\ stockQuote' = IF ok THEN UpsertQuote(stockQuote, gq[p].quoteData, now)
                                ELSE stockQuote
         /\ gq' = [gq EXCEPT ![p] = UpsertReturn(gq[p], ok)]
    /\ UNCHANGED <<now, gqs, histVars, budget, snapVars>>

-----------------------------------------------------------------------------
(* getQuotes *)

SymbolLists ==
    {<<>>, <<"aapl">>, <<"MSFT">>, <<"aapl", "MSFT">>, <<"MSFT", "aapl">>,
     <<"aapl", "aapl">>}

\* results[symbol] = quote
ResultKeyAsGiven(symbol) == symbol

\* results[symbol.toUpperCase()] = quote
ResultKey(symbol) == toUpperCase(symbol)

Collect(results, symbol, quote) ==
    IF quote # Null THEN (ResultKey(symbol) :> quote) @@ results ELSE results

GetQuotesCall(p, symbols) ==
    /\ Idle(p)
    /\ budget.calls > 0
    /\ budget' = Spend
    /\ gqs' = [gqs EXCEPT ![p] = [IdleQuotes EXCEPT !.pc = "loop", !.symbols = symbols,
                                                    !.pos = 1]]
    /\ gq' = [gq EXCEPT ![p] = IdleQuote]
    /\ gh' = [gh EXCEPT ![p] = IdleHistory]
    /\ UNCHANGED <<now, stockQuote, stockHistory, stockMetadata, committed, snapVars>>

\* the head of the loop: the next getQuote, or return results
GetQuotesNext(p) ==
    /\ gqs[p].pc = "loop"
    /\ IF gqs[p].pos <= Len(gqs[p].symbols)
       THEN /\ gq' = [gq EXCEPT ![p] = NewQuoteFrame(gqs[p].symbols[gqs[p].pos])]
            /\ gqs' = [gqs EXCEPT ![p].pc = "await"]
       ELSE /\ gqs' = [gqs EXCEPT ![p].pc = "returned"]
            /\ gq' = gq
    /\ UNCHANGED <<now, stockQuote, histVars, budget, snapVars>>

\* const quote = await getQuote(symbol); if (quote) ...; await delay(50)
GetQuotesCollect(p) ==
    /\ gqs[p].pc = "await"
    /\ gq[p].pc = "returned"
    /\ LET f == gqs[p]
       IN gqs' = [gqs EXCEPT ![p] =
                    [f EXCEPT !.pc = "loop", !.pos = f.pos + 1,
                              !.results = Collect(f.results, f.symbols[f.pos], gq[p].ret),
                              !.rets = Append(f.rets, gq[p].ret)]]
    /\ gq' = [gq EXCEPT ![p] = IdleQuote]
    /\ UNCHANGED <<now, stockQuote, histVars, budget, snapVars>>

-----------------------------------------------------------------------------
(* History rows.  A date is midnight of a day, in ms; open, high, low,    *)
(* adjClose and volume travel with close.                                 *)

DateOf(day) == day * ONE_DAY_MS

historySources == <<"TwelveData", "Yahoo", "FMP">>

HistoryIndex(a) == CHOOSE i \in 1..Len(historySources) : historySources[i] = a

\* A provider's payload: days in the order the provider lists them, and the
\* volume its rows carry.
DayLists == {<<>>, <<1, 2>>, <<2, 1>>, <<2, 2>>}

HistoryResponses ==
    {[kind |-> "error"], [kind |-> "nodata"]}
      \cup {[kind |-> "data", days |-> l, volume |-> Num(1000, 0)] : l \in DayLists}
      \cup {[kind |-> "data", days |-> <<1>>, volume |-> Num(1000, 1)]}

Reverse(s) == [i \in 1..Len(s) |-> s[Len(s) + 1 - i]]

\* row => ({symbol, date: new Date(row...), ..., close, ...}); each provider
\* quotes its own closes
MapRows(a, days) ==
    [i \in 1..Len(days) |-> [date |-> DateOf(days[i]), close |-> 10 * HistoryIndex(a) + i]]

\* BigInt(row.volume || 0) in the map
MapThrows(r) == Len(r.days) > 0 /\ Truthy(r.volume) /\ BigIntThrows(r.volume)

\* Each strategy gives the historyData it assigns, or None when it leaves
\* historyData as it was (null).
historyFromTwelveData(r) ==
    IF r.kind = "data" /\ ~MapThrows(r)
    THEN Option(Reverse(MapRows("TwelveData", r.days)))
    ELSE None

historyFromYahoo(r) ==
    IF r.kind = "data" /\ Len(r.days) > 0 /\ ~MapThrows(r)
    THEN Option(MapRows("Yahoo", r.days))
    ELSE None

historyFromFMP(r) ==
    IF r.kind = "data" /\ ~MapThrows(r)
    THEN Option(MapRows("FMP", r.days))
    ELSE None

HistoryFn(a, r) ==
    CASE a = "TwelveData" -> historyFromTwelveData(r)
      [] a = "Yahoo" -> historyFromYahoo(r)
      [] a = "FMP" -> historyFromFMP(r)

\* if (!historyData): null is falsy, an array (even an empty one) is not
NotHistoryData(historyData) == historyData = None

\* if (historyData && historyData.length > 0)
HasHistoryData(historyData) == historyData # None /\ Len(historyData[1]) > 0

-----------------------------------------------------------------------------
(* The tables StockHistory and StockMetadata *)

RowDates(rows) == {r.date : r \in rows}

SeqRows(s) == {s[i] : i \in 1..Len(s)}

\* createMany({data, skipDuplicates: true}) into the emptied symbol: of the rows
\* of one date the first is kept
CreateMany(data) ==
    {data[i] : i \in {j \in 1..Len(data) :
                        \A k \in 1..(j - 1) : data[k].date # data[j].date}}

\* createMany without the deleteMany before it
MergeHistory(old, data) ==
    old \cup {r \in CreateMany(data) : r.date \notin RowDates(old)}

\* deleteMany({where: {symbol}}) then createMany
ReplaceHistory(old, data) == CreateMany(data)

\* stockMetadata.upsert: update and create set the same three fields
UpsertHistoryMetadata(old, symbol, data, t) ==
    [symbol |-> symbol,
     name |-> IF old = Null THEN None ELSE old.name,
     historyStartDate |-> Option(data[Len(data)].date),
     historyEndDate |-> Option(data[1].date),
     lastFetchedAt |-> Option(t)]

\* findMany({where: {symbol, date: {gte: startDate}}, orderBy: {date: 'asc'}})
RECURSIVE SortAsc(_)
SortAsc(rows) ==
    IF rows = {} THEN <<>>
    ELSE LET first == CHOOSE r \in rows : \A o \in rows : r.date <= o.date
         IN <<first>> \o SortAsc(rows \ {first})

\* new Date(Date.now() - days * ONE_DAY_MS).  No date is before time 0, so a
\* start before it is given as -1, which keeps the product within 32 bits.
StartDate(days, t) ==
    IF days > t \div ONE_DAY_MS THEN -1 ELSE t - days * ONE_DAY_MS

\* findMany without the date filter
getStoredHistoricalDataAll(rows, days, t) == SortAsc(rows)

getStoredHistoricalData(rows, days, t) ==
    SortAsc({r \in rows : r.date >= StartDate(days, t)})

\* generateHistoricalSnapshots: findMany({where: {symbol}, orderBy: {date: 'asc'},
\* take: days})
Take(s, n) == SubSeq(s, 1, IF n < Len(s) THEN n ELSE Len(s))

loadHistory(rows, days) == Take(SortAsc(rows), days)

DefaultDays == 365 * 5

\* timeSinceLastFetch <= ONE_DAY_MS
HasRecentInclusive(metadata, t) ==
    /\ metadata # Null
    /\ metadata.lastFetchedAt # None
    /\ t - metadata.lastFetchedAt[1] <= ONE_DAY_MS

\* metadata?.lastFetchedAt, and timeSinceLastFetch < ONE_DAY_MS
HasRecent(metadata, t) ==
    /\ metadata # Null
    /\ metadata.lastFetchedAt # None
    /\ t - metadata.lastFetchedAt[1] < ONE_DAY_MS

-----------------------------------------------------------------------------
(* getHistoricalData, getStoredHistoricalData, fetchAndStoreHistoricalData *)

DayWindows == {1, 2}

NewHistoryFrame(op, symbol, days, forceRefresh, pc) ==
    [IdleHistory EXCEPT !.pc = pc, !.op = op, !.symbol = symbol, !.days = days,
                        !.forceRefresh = forceRefresh]

HistoryCall(p, frame) ==
    /\ Idle(p)
    /\ budget.calls > 0
    /\ budget' = Spend
    /\ gh' = [gh EXCEPT ![p] = frame]
    /\ gq' = [gq EXCEPT ![p] = IdleQuote]
    /\ gqs' = [gqs EXCEPT ![p] = IdleQuotes]
    /\ UNCHANGED <<now, stockQuote, stockHistory, stockMetadata, committed, snapVars>>

GetHistoricalDataCall(p, symbol, days, forceRefresh) ==
    HistoryCall(p, NewHistoryFrame("getHistoricalData", toUpperCase(symbol), days,
                                   forceRefresh,
                                   IF forceRefresh THEN "fetch" ELSE "findMetadata"))

\* the exported getStoredHistoricalData: the symbol is used as given
GetStoredHistoricalDataCall(p, symbol, days) ==
    HistoryCall(p, NewHistoryFrame("getStoredHistoricalData", symbol, days, FALSE,
                                   "findMany"))

\* prisma.stockMetadata.findUnique and the freshness check
GetHistoricalDataFindMetadata(p) ==
    /\ gh[p].pc = "findMetadata"
    /\ LET metadata == stockMetadata[gh[p].symbol]
           f == [gh[p] EXCEPT !.metadata = metadata,
                              !.checked = IF metadata = Null THEN "norow"
                                          ELSE IF metadata.lastFetchedAt = None THEN "never"
                                          ELSE IF now - metadata.lastFetchedAt[1]
                                                    < 24 * 3600 * 1000 THEN "young"
                                          ELSE "old"]
       IN gh' = [gh EXCEPT ![p] =
                    IF HasRecent(metadata, now)
                    THEN [f EXCEPT !.pc = "findMany"]
                    ELSE [f EXCEPT !.pc = "fetch"]]
    /\ UNCHANGED <<now, quoteVars, stockHistory, stockMetadata, committed, budget,
                   snapVars>>

\* getStoredHistoricalData: one findMany
GetStoredHistoricalData(p) ==
    /\ gh[p].pc = "findMany"
    /\ gh' = [gh EXCEPT ![p].pc = "returned",
                         ![p].readAt = now,
                         ![p].metaAtRead = stockMetadata[gh[p].symbol],
                         ![p].ret = getStoredHistoricalData(stockHistory[gh[p].symbol],
                                                            gh[p].days, now)]
    /\ UNCHANGED <<now, quoteVars, stockHistory, stockMetadata, committed, budget,
                   snapVars>>

\* generateHistoricalSnapshots reading one symbol's history
LoadHistoryCall(p, symbol, days) ==
    HistoryCall(p, NewHistoryFrame("generateHistoricalSnapshots", symbol, days, FALSE,
                                   "load"))

LoadHistory(p) ==
    /\ gh[p].pc = "load"
    /\ gh' = [gh EXCEPT ![p].pc = "returned",
                         ![p].readAt = now,
                         ![p].metaAtRead = stockMetadata[gh[p].symbol],
                         ![p].ret = loadHistory(stockHistory[gh[p].symbol], gh[p].days)]
    /\ UNCHANGED <<now, quoteVars, stockHistory, stockMetadata, committed, budget,
                   snapVars>>

\* A fallback that keeps the caller's window
FallbackDaysAsRequested(f) == f.days

\* return getStoredHistoricalData(symbol): the days parameter takes its default
FallbackDays(f) == DefaultDays

\* one strategy of fetchAndStoreHistoricalData: the delay, the request, the map
FetchHistory(p) ==
    /\ gh[p].pc = "fetch"
    /\ \E r \in HistoryResponses :
         LET a == historySources[Len(gh[p].tried) + 1]
             historyData == HistoryFn(a, r)
             f == [gh[p] EXCEPT !.tried = Append(@, a),
                                !.outcomes = Append(@, IF historyData = None THEN "none"
                                                       ELSE IF Len(historyData[1]) = 0
                                                       THEN "empty" ELSE "rows"),
                                !.historyData = historyData]
         IN gh' = [gh EXCEPT ![p] =
                     IF NotHistoryData(historyData) /\ Len(f.tried) < Len(historySources)
                     THEN f
                     ELSE IF HasHistoryData(historyData)
                     THEN [f EXCEPT !.pc = "transaction"]
                     ELSE [f EXCEPT !.pc = "findMany", !.days = FallbackDays(f)]]
    /\ UNCHANGED <<now, quoteVars, stockHistory, stockMetadata, committed, budget,
                   snapVars>>

\* A transaction that keeps what it did before it threw
NoRollback(before, after) == after

\* prisma.$transaction throws: what tx.stockHistory.deleteMany did is undone
Rollback(before, after) == before

\* prisma.$transaction: it commits as a whole, or throws and changes nothing
StoreHistory(p) ==
    /\ gh[p].pc = "transaction"
    /\ LET symbol == gh[p].symbol
           data == gh[p].historyData[1]
       IN \E ok \in BOOLEAN :
            IF ok
            THEN /\ stockHistory' = [stockHistory EXCEPT
                                        ![symbol] = ReplaceHistory(@, data)]
                 /\ stockMetadata' = [stockMetadata EXCEPT
                                        ![symbol] = UpsertHistoryMetadata(@, symbol, data, now)]
                 /\ committed' = [committed EXCEPT ![symbol] = @ \cup {CreateMany(data)}]
                 /\ gh' = [gh EXCEPT ![p].pc = "returned", ![p].stored = TRUE,
                                     ![p].ret = data]
            ELSE /\ stockHistory' = Rollback(stockHistory,
                                              [stockHistory EXCEPT ![symbol] = {}])
                 /\ gh' = [gh EXCEPT ![p].pc = "findMany", ![p].days = FallbackDays(gh[p])]
                 /\ UNCHANGED <<stockMetadata, committed>>
    /\ UNCHANGED <<now, quoteVars, budget, snapVars>>

-----------------------------------------------------------------------------
(* The provider requests of one call, await by await.  GetQuoteFetch and     *)
(* FetchHistory above take one attempt as a whole; here the request, its     *)
(* answer and the delay are steps of their own, and time passes in them.     *)

\* How long a provider takes to answer
Latencies == {0, 50}

\* A delay that does not wait
delayNone(ms, t) == t

\* const delay = (ms) => new Promise(resolve => setTimeout(resolve, ms)): the
\* time at which the promise resolves when awaited at t
delay(ms, t) == t + ms

\* const result = await source.fn(upperSymbol): the request leaves
GetQuoteRequest(p) ==
    /\ gq[p].pc = "fetch"
    /\ LET source == sources[gq[p].idx]
       IN gq' = [gq EXCEPT ![p].pc = "inflight",
                           ![p].calls = Append(@, source),
                           ![p].inFlight = @ \cup {source},
                           ![p].startedAt = now]
    /\ UNCHANGED <<now, stockQuote, gqs, histVars, budget, snapVars>>

\* the adapter returns: quoteData is built, or the turn goes on to the delay
GetQuoteResponse(p) ==
    /\ gq[p].pc = "inflight"
    /\ \E r \in Outcomes(sources[gq[p].idx]), latency \in Latencies :
         LET source == sources[gq[p].idx]
             result == SourceFn(source, gq[p].symbol, r)
             f == [gq[p] EXCEPT !.inFlight = @ \ {source},
                                !.endedAt = now + latency,
                                !.response = r,
                                !.result = result,
                                !.valid = IF ValidResult(result)
                                          THEN Append(@, source) ELSE @]
         IN /\ now' = now + latency
            /\ gq' = [gq EXCEPT ![p] =
                        IF ValidResult(result) /\ ~QuoteDataThrows(result)
                        THEN [f EXCEPT !.pc = "upsert",
                                       !.quoteData = QuoteData(f.symbol, result)]
                        ELSE [f EXCEPT !.pc = "delay"]]
    /\ UNCHANGED <<stockQuote, gqs, histVars, budget, snapVars>>

\* await delay(100), then the next turn of the loop or what follows it
GetQuoteDelay(p) ==
    /\ gq[p].pc = "delay"
    /\ now' = delay(100, now)
    /\ gq' = [gq EXCEPT ![p] = NextSource([gq[p] EXCEPT !.pc = "fetch"])]
    /\ UNCHANGED <<stockQuote, gqs, histVars, budget, snapVars>>

\* await delay(1000), delay(2000), delay(1000): the first await of each strategy
historyDelays == <<1000, 2000, 1000>>

HistoryDelay(p) ==
    /\ gh[p].pc = "fetch"
    /\ now' = delay(historyDelays[Len(gh[p].tried) + 1], now)
    /\ gh' = [gh EXCEPT ![p].pc = "request"]
    /\ UNCHANGED <<quoteVars, stockHistory, stockMetadata, committed, budget, snapVars>>

\* await axios.get(url) or yahooFinance.historical(...): the request leaves
HistoryRequest(p) ==
    /\ gh[p].pc = "request"
    /\ LET a == historySources[Len(gh[p].tried) + 1]
       IN gh' = [gh EXCEPT ![p].pc = "inflight",
                           ![p].tried = Append(@, a),
                           ![p].inFlight = @ \cup {a},
                           ![p].startedAt = now]
    /\ UNCHANGED <<now, quoteVars, stockHistory, stockMetadata, committed, budget,
                   snapVars>>

\* the answer and the map; then the next strategy, the transaction, or the
\* fallback to what is stored
HistoryResponse(p) ==
    /\ gh[p].pc = "inflight"
    /\ \E r \in HistoryResponses, latency \in Latencies :
         LET a == gh[p].tried[Len(gh[p].tried)]
             historyData == HistoryFn(a, r)
             f == [gh[p] EXCEPT !.inFlight = @ \ {a},
                                !.endedAt = now + latency,
                                !.outcomes = Append(@, IF historyData = None THEN "none"
                                                       ELSE IF Len(historyData[1]) = 0
                                                       THEN "empty" ELSE "rows"),
                                !.historyData = historyData]
         IN /\ now' = now + latency
            /\ gh' = [gh EXCEPT ![p] =
                        IF NotHistoryData(historyData) /\ Len(f.tried) < Len(historySources)
                        THEN [f EXCEPT !.pc = "fetch"]
                        ELSE IF HasHistoryData(historyData)
                        THEN [f EXCEPT !.pc = "transaction"]
                        ELSE [f EXCEPT !.pc = "findMany", !.days = FallbackDays(f)]]
    /\ UNCHANGED <<quoteVars, stockHistory, stockMetadata, committed, budget, snapVars>>

-----------------------------------------------------------------------------
(* The clock *)

Tick(delta) ==
    /\ budget.ticks > 0
    /\ budget' = [budget EXCEPT !.ticks = budget.ticks - 1]
    /\ now' = now + delta
    /\ UNCHANGED <<quoteVars, histVars, snapVars>>

TickQuote == Tick(CACHE_TTL_MS \div 2)

TickHistory == Tick(ONE_DAY_MS \div 2)

-----------------------------------------------------------------------------
(* Specifications *)

\* MSFT was once looked up by getStockMetadata, which leaves a row with a name and
\* no lastFetchedAt; AAPL was never seen.
NameOnly(symbol) ==
    [symbol |-> symbol, name |-> Option(symbol), historyStartDate |-> None,
     historyEndDate |-> None, lastFetchedAt |-> None]

InitStore ==
    /\ stockQuote = [k \in Keys |-> Null]
    /\ gq = [p \in Procs |-> IdleQuote]
    /\ gqs = [p \in Procs |-> IdleQuotes]
    /\ stockHistory = [k \in Keys |-> {}]
    /\ stockMetadata = [k \in Keys |-> IF k = "MSFT" THEN NameOnly(k) ELSE Null]
    /\ committed = [k \in Keys |-> {{}}]
    /\ gh = [p \in Procs |-> IdleHistory]
    /\ portfolioSnapshot = {}
    /\ gs = [p \in Procs |-> IdleSnapshot]
    /\ job = [p \in Procs |-> IdleJob]

GetQuoteSteps(p) ==
    \/ GetQuoteFindCached(p)
    \/ GetQuoteFetch(p)
    \/ GetQuoteUpsert(p)

(* getQuote, one call after another *)

Init ==
    /\ InitStore
    /\ now = 0
    /\ budget = [calls |-> MaxCalls, ticks |-> MaxTicks]

Next ==
    \/ TickQuote
    \/ \E s \in InputSymbols : GetQuoteCall(Main, s)
    \/ GetQuoteSteps(Main)

Spec == Init /\ [][Next]_vars

(* Two callers ask for the quote of one symbol at the same time, once each. *)
(* The symbol has no row, or a row that is just too old to be served.        *)

StaleQuote ==
    QuoteRow(QuoteData("AAPL", fetchFromYahoo("AAPL", ProviderData("Yahoo", 90,
                                                                    Num(1000, 0)))), 0)

InitRace ==
    /\ now = CACHE_TTL_MS
    /\ budget = [calls |-> MaxCalls, ticks |-> MaxTicks]
    /\ \E cached \in {Null, StaleQuote} :
         stockQuote = [k \in Keys |-> IF k = "AAPL" THEN cached ELSE Null]
    /\ gq = [p \in Procs |-> IdleQuote]
    /\ gqs = [p \in Procs |-> IdleQuotes]
    /\ stockHistory = [k \in Keys |-> {}]
    /\ stockMetadata = [k \in Keys |-> Null]
    /\ committed = [k \in Keys |-> {{}}]
    /\ gh = [p \in Procs |-> IdleHistory]
    /\ portfolioSnapshot = {}
    /\ gs = [p \in Procs |-> IdleSnapshot]
    /\ job = [p \in Procs |-> IdleJob]

NextRace ==
    \/ TickQuote
    \/ \E p \in Procs :
         \/ gq[p].pc = "idle" /\ GetQuoteCall(p, "aapl")
         \/ GetQuoteSteps(p)

SpecRace == InitRace /\ [][NextRace]_vars

(* One call, of getQuote or of a forced refetch of history, await by await *)

InitSequential == InitRace

FirstCall(p) == gq[p].pc = "idle" /\ gh[p].pc = "idle"

NextSequential ==
    \/ \E s \in InputSymbols : FirstCall(Main) /\ GetQuoteCall(Main, s)
    \/ \E s \in InputSymbols, d \in DayWindows :
         FirstCall(Main) /\ GetHistoricalDataCall(Main, s, d, TRUE)
    \/ GetQuoteFindCached(Main)
    \/ GetQuoteRequest(Main)
    \/ GetQuoteResponse(Main)
    \/ GetQuoteDelay(Main)
    \/ GetQuoteUpsert(Main)
    \/ HistoryDelay(Main)
    \/ HistoryRequest(Main)
    \/ HistoryResponse(Main)
    \/ StoreHistory(Main)
    \/ GetStoredHistoricalData(Main)

SpecSequential == InitSequential /\ [][NextSequential]_vars

(* getQuotes, one call *)

NextQuotes ==
    \/ TickQuote
    \/ \E l \in SymbolLists : GetQuotesCall(Main, l)
    \/ GetQuotesNext(Main)
    \/ GetQuotesCollect(Main)
    \/ GetQuoteSteps(Main)

InitQuotes ==
    /\ InitStore
    /\ now = 0
    /\ budget = [calls |-> MaxQuotesCalls, ticks |-> MaxTicks]

SpecQuotes == InitQuotes /\ [][NextQuotes]_vars

(* The history aggregator, one call after another *)

InitHistory ==
    /\ InitStore
    /\ now = 2 * ONE_DAY_MS
    /\ budget = [calls |-> MaxCalls, ticks |-> MaxTicks]

HistorySteps(p) ==
    \/ GetHistoricalDataFindMetadata(p)
    \/ GetStoredHistoricalData(p)
    \/ FetchHistory(p)
    \/ StoreHistory(p)

NextHistory ==
    \/ TickHistory
    \/ \E s \in InputSymbols, d \in DayWindows, force \in BOOLEAN :
         GetHistoricalDataCall(Main, s, d, force)
    \/ HistorySteps(Main)

SpecHistory == InitHistory /\ [][NextHistory]_vars

(* A forced refetch of AAPL by one caller while another reads AAPL's history. *)
(* AAPL was fetched from Yahoo before, at the time the behaviour starts.      *)

FirstFetch == MapRows("Yahoo", <<2>>)

InitHistoryConcurrent ==
    /\ now = 2 * ONE_DAY_MS
    /\ budget = [calls |-> MaxCalls, ticks |-> MaxTicks]
    /\ stockQuote = [k \in Keys |-> Null]
    /\ gq = [p \in Procs |-> IdleQuote]
    /\ gqs = [p \in Procs |-> IdleQuotes]
    /\ gh = [p \in Procs |-> IdleHistory]
    /\ portfolioSnapshot = {}
    /\ gs = [p \in Procs |-> IdleSnapshot]
    /\ job = [p \in Procs |-> IdleJob]
    /\ stockHistory = [k \in Keys |-> IF k = "AAPL" THEN ReplaceHistory({}, FirstFetch)
                                      ELSE {}]
    /\ stockMetadata = [k \in Keys |->
                          IF k = "AAPL"
                          THEN UpsertHistoryMetadata(Null, k, FirstFetch, now)
                          ELSE NameOnly(k)]
    /\ committed = [k \in Keys |-> IF k = "AAPL" THEN {CreateMany(FirstFetch)} ELSE {{}}]

Writer == "A"

Reader == "B"

NextHistoryConcurrent ==
    \/ TickHistory
    \/ \E d \in DayWindows : GetHistoricalDataCall(Writer, "aapl", d, TRUE)
    \/ \E d \in DayWindows :
         \/ GetHistoricalDataCall(Reader, "aapl", d, FALSE)
         \/ GetStoredHistoricalDataCall(Reader, "AAPL", d)
         \/ LoadHistoryCall(Reader, "AAPL", d)
    \/ \E p \in Procs : HistorySteps(p) \/ LoadHistory(p)

SpecHistoryConcurrent == InitHistoryConcurrent /\ [][NextHistoryConcurrent]_vars

-----------------------------------------------------------------------------
(* Claims about getQuote *)

Returned(p) == gq[p].pc = "returned"

\* Age of the cached row when getQuote looked it up
CachedAge(p) == gq[p].t0 - gq[p].cached.updatedAt

AllSourcesCalled(p) == gq[p].calls = sources

\* C1: when a cached row exists for the uppercased symbol and is less than 30 s
\* old, getQuote returns that row unchanged, invokes no adapter and upserts
\* nothing.
C1_FreshCacheShortCircuit ==
    \A p \in Procs :
      (Returned(p) /\ gq[p].cached # Null /\ CachedAge(p) < 30000)
        => /\ gq[p].ret = gq[p].cached
           /\ gq[p].calls = <<>>
           /\ gq[p].wrote = "none"
           /\ stockQuote[gq[p].symbol] = gq[p].cached

C1_Witness ==
    /\ Returned(Main)
    /\ gq[Main].cached # Null
    /\ CachedAge(Main) = 15000
    /\ gq[Main].ret = gq[Main].cached
    /\ gq[Main].calls = <<>>

\* C2: with no fresh cache the adapters are tried in the order FMP, Finnhub,
\* TwelveData, Yahoo, AlphaVantage, the Quote returned is built from the first
\* adapter whose result has price > 0, and no adapter after that one is invoked.
C2_FirstValidSourceWins ==
    \A p \in Procs :
      (Returned(p) /\ gq[p].valid # <<>>)
        => /\ gq[p].calls = SubSeq(<<"FMP", "Finnhub", "TwelveData", "Yahoo",
                                     "AlphaVantage">>, 1, Len(gq[p].calls))
           /\ gq[p].calls[Len(gq[p].calls)] = gq[p].valid[1]
           /\ gq[p].ret.price = ProviderPrice(gq[p].valid[1])
           /\ gq[p].ret.changeAmount = SourceIndex(gq[p].valid[1])

\* C3: when every adapter fails or returns invalid data, getQuote returns the
\* cached row if one exists, whatever its age, and null only if none exists.
C3_StaleCacheOrNull ==
    \A p \in Procs :
      /\ (Returned(p) /\ AllSourcesCalled(p) /\ gq[p].valid = <<>>)
           => gq[p].ret = gq[p].cached /\ gq[p].wrote = "none"
      /\ (Returned(p) /\ gq[p].ret = Null)
           => gq[p].cached = Null /\ AllSourcesCalled(p)

C3_Witness ==
    /\ Returned(Main)
    /\ AllSourcesCalled(Main)
    /\ gq[Main].valid = <<>>
    /\ gq[Main].cached # Null
    /\ CachedAge(Main) >= 30000
    /\ gq[Main].ret = gq[Main].cached

\* C4: when an adapter returned a valid Quote and its upsert fails, the failure is
\* swallowed: getQuote returns the fetched Quote, tries no further adapter and
\* does not fall back to the cached row.
C4_UpsertFailureSwallowed ==
    \A p \in Procs :
      (Returned(p) /\ gq[p].wrote = "failed")
        => /\ gq[p].ret = gq[p].quoteData
           /\ gq[p].ret.price > 0
           /\ gq[p].ret.price = ProviderPrice(gq[p].calls[Len(gq[p].calls)])
           /\ gq[p].ret # gq[p].cached

C4_Witness ==
    /\ Returned(Main)
    /\ gq[Main].wrote = "failed"
    /\ gq[Main].cached # Null
    /\ gq[Main].calls = <<"FMP", "Finnhub">>
    /\ gq[Main].ret.price = ProviderPrice("Finnhub")
    /\ stockQuote[gq[Main].symbol] = gq[Main].cached

-----------------------------------------------------------------------------
(* Claims about getQuotes *)

\* The calls for key k that returned a Quote
Hits(f, k) ==
    {i \in 1..Len(f.rets) : toUpperCase(f.symbols[i]) = k /\ f.rets[i] # Null}

Max(S) == CHOOSE x \in S : \A y \in S : y <= x

\* C5: the result map has an entry, keyed by the uppercased symbol, for exactly
\* the input symbols whose getQuote returned a Quote, and none for the others.
C5_ResultsAreTheHits ==
    \A p \in Procs :
      gqs[p].pc = "returned"
        => /\ Len(gqs[p].rets) = Len(gqs[p].symbols)
           /\ DOMAIN gqs[p].results = {k \in Keys : Hits(gqs[p], k) # {}}
           /\ \A k \in DOMAIN gqs[p].results :
                gqs[p].results[k] = gqs[p].rets[Max(Hits(gqs[p], k))]

C5_Witness ==
    /\ gqs[Main].pc = "returned"
    /\ gqs[Main].symbols = <<"aapl", "MSFT">>
    /\ gqs[Main].rets[1] # Null
    /\ gqs[Main].rets[2] = Null
    /\ DOMAIN gqs[Main].results = {"AAPL"}

(* Two forced refetches of AAPL at once, each called once *)

NextRefetchRace ==
    \/ TickHistory
    \/ \E p \in Procs :
         \/ gh[p].pc = "idle" /\ GetHistoricalDataCall(p, "aapl", 1, TRUE)
         \/ FetchHistory(p)
         \/ StoreHistory(p)
         \/ GetStoredHistoricalData(p)

SpecRefetchRace == InitHistoryConcurrent /\ [][NextRefetchRace]_vars

-----------------------------------------------------------------------------
(* Claims about the history aggregator *)

HReturned(p) == gh[p].pc = "returned"

\* C6: getHistoricalData with forceRefresh = false and lastFetchedAt less than
\* 24 h old makes no provider request, writes nothing, and returns exactly the
\* persisted rows of the symbol with date >= now - days, in ascending date order.
C6_FreshHistoryServedFromStore ==
    \A p \in Procs :
      (/\ HReturned(p)
       /\ gh[p].op = "getHistoricalData"
       /\ ~gh[p].forceRefresh
       /\ gh[p].checked = "young")
        => /\ gh[p].tried = <<>>
           /\ ~gh[p].stored
           /\ SeqRows(gh[p].ret) =
                {r \in stockHistory[gh[p].symbol] :
                   r.date >= gh[p].readAt - gh[p].days * ONE_DAY_MS}
           /\ \A i, j \in 1..Len(gh[p].ret) :
                i < j => gh[p].ret[i].date < gh[p].ret[j].date

C6_Witness ==
    /\ HReturned(Main)
    /\ gh[Main].op = "getHistoricalData"
    /\ ~gh[Main].forceRefresh
    /\ gh[Main].checked = "young"
    /\ gh[Main].tried = <<>>
    /\ Len(gh[Main].ret) = 1
    /\ Cardinality(stockHistory[gh[Main].symbol]) = 2

\* C7: getHistoricalData attempts the providers whenever forceRefresh is true, or
\* the symbol has no metadata row, or lastFetchedAt is absent or at least 24 h old;
\* the persisted set is not served before the providers were tried.
C7_RefetchWhenNotFresh ==
    \A p \in Procs :
      (/\ gh[p].op = "getHistoricalData"
       /\ gh[p].pc \in {"findMany", "returned"}
       /\ gh[p].forceRefresh \/ gh[p].checked \in {"norow", "never", "old"})
        => /\ gh[p].tried # <<>>
           /\ gh[p].tried[1] = "TwelveData"

C7_Witness ==
    /\ HReturned(Main)
    /\ gh[Main].op = "getHistoricalData"
    /\ ~gh[Main].forceRefresh
    /\ gh[Main].checked = "old"
    /\ now - gh[Main].metadata.lastFetchedAt[1] = ONE_DAY_MS
    /\ gh[Main].tried # <<>>

\* C8: the refetch tries TwelveData, Yahoo, FMP in this order; the data stored and
\* returned is that of the first adapter that returns a non-empty sequence; an
\* adapter that fails or returns an empty sequence is skipped and the next tried.
C8_FirstNonEmptyHistoryWins ==
    \A p \in Procs :
      (gh[p].pc \in {"transaction", "findMany", "returned"} /\ gh[p].tried # <<>>)
        => LET n == Len(gh[p].tried)
           IN /\ gh[p].tried = SubSeq(<<"TwelveData", "Yahoo", "FMP">>, 1, n)
              /\ \A i \in 1..(n - 1) : gh[p].outcomes[i] # "rows"
              /\ gh[p].outcomes[n] # "rows" => n = 3
              /\ gh[p].stored => gh[p].outcomes[n] = "rows"

\* C9: after a successful refetch of symbol X the persisted rows of X are exactly
\* the newly fetched set, one row per distinct date of the batch; no earlier row
\* remains and the rows of other symbols are unchanged.
C9_ReplaceStep ==
    \A p \in Procs :
      (gh[p].pc = "transaction" /\ gh'[p].stored)
        => LET X == gh[p].symbol
               data == SeqRows(gh[p].historyData[1])
           IN /\ stockHistory'[X] \subseteq data
              /\ RowDates(stockHistory'[X]) = RowDates(data)
              /\ Cardinality(stockHistory'[X]) = Cardinality(RowDates(data))
              /\ \A k \in Keys \ {X} : stockHistory'[k] = stockHistory[k]

C9_ExactReplace == [][C9_ReplaceStep]_vars

C9_Witness ==
    /\ HReturned(Main)
    /\ gh[Main].stored
    /\ \E old \in committed[gh[Main].symbol] :
         old # {} /\ old \cap stockHistory[gh[Main].symbol] = {}
    /\ Len(gh[Main].ret) > Cardinality(stockHistory[gh[Main].symbol])

-----------------------------------------------------------------------------
(* Claims about a refetch with concurrent readers *)

ReadStore(p) ==
    /\ HReturned(p)
    /\ ~gh[p].stored

\* What a read by p gives of the complete set c
ReadOf(p, c) ==
    IF gh[p].op = "generateHistoricalSnapshots"
    THEN loadHistory(c, gh[p].days)
    ELSE getStoredHistoricalData(c, gh[p].days, gh[p].readAt)

\* Every read gives what it would give of one complete committed set
ReadsAreComplete ==
    \A p \in Procs :
      ReadStore(p) => \E c \in committed[gh[p].symbol] : gh[p].ret = ReadOf(p, c)

\* In the store, the metadata of a fetched symbol describes the rows it holds
StoreIsConsistent ==
    \A k \in Keys :
      /\ stockHistory[k] \in committed[k]
      /\ (stockMetadata[k] # Null /\ stockMetadata[k].lastFetchedAt # None)
           => /\ stockMetadata[k].historyStartDate[1] \in RowDates(stockHistory[k])
              /\ stockMetadata[k].historyEndDate[1] \in RowDates(stockHistory[k])

\* The fresh path of getHistoricalData decided on the metadata that was stored
\* when it read the rows
FreshPathSeesOneVersion ==
    \A p \in Procs :
      (ReadStore(p) /\ gh[p].op = "getHistoricalData" /\ gh[p].tried = <<>>)
        => gh[p].metadata = gh[p].metaAtRead

\* C10: while a refetch of X stores its result, a concurrent reader of X's history
\* observes the complete old set or the complete new set, never an empty or partly
\* replaced one, and never new rows together with the old metadata or vice versa.
C10_ReadersSeeOldOrNew ==
    /\ ReadsAreComplete
    /\ StoreIsConsistent
    /\ FreshPathSeesOneVersion

\* C10 as amended: every read of X's rows gives the complete old or the complete
\* new set, and the store never holds new rows with old metadata or vice versa.
C10_AtomicReplace ==
    /\ ReadsAreComplete
    /\ StoreIsConsistent

C10_Witness ==
    /\ gh[Writer].stored
    /\ gh[Writer].pc = "returned"
    /\ ReadStore(Reader)
    /\ gh[Reader].op = "getHistoricalData"
    /\ gh[Reader].tried = <<>>
    /\ gh[Reader].metadata # gh[Reader].metaAtRead
    /\ gh[Reader].ret = ReadOf(Reader, stockHistory["AAPL"])
    /\ stockHistory["AAPL"] # CreateMany(FirstFetch)

-----------------------------------------------------------------------------
(* Claims about the outcome of a refetch *)

LastOutcome(p) == gh[p].outcomes[Len(gh[p].outcomes)]

\* The transaction of this call was attempted and did not commit.
TransactionFailed(p) ==
    /\ gh[p].pc \in {"findMany", "returned", "threw"}
    /\ gh[p].tried # <<>>
    /\ LastOutcome(p) = "rows"
    /\ ~gh[p].stored

AllAdaptersFailed(p) ==
    /\ Len(gh[p].tried) = Len(historySources)
    /\ \A i \in 1..Len(gh[p].outcomes) : gh[p].outcomes[i] = "none"

MinDate(rows) == CHOOSE d \in RowDates(rows) : \A e \in RowDates(rows) : d <= e

MaxDate(rows) == CHOOSE d \in RowDates(rows) : \A e \in RowDates(rows) : d >= e

Ascending(s) == \A i, j \in 1..Len(s) : i < j => s[i].date <= s[j].date

\* C11: when an adapter returned a non-empty history and the transactional
\* replace fails, the fetch-and-store path ends with an error for its caller; it
\* does not go on to return a result.
C11_PersistenceFailureSurfaced ==
    \A p \in Procs : TransactionFailed(p) => gh[p].pc = "threw"

C13_MetadataSpansStoredRows ==
    \A p \in Procs :
      (HReturned(p) /\ gh[p].stored)
        => LET X == gh[p].symbol
           IN /\ stockMetadata[X] # Null
              /\ stockMetadata[X].historyStartDate = Option(MinDate(stockHistory[X]))
              /\ stockMetadata[X].historyEndDate = Option(MaxDate(stockHistory[X]))
              /\ stockMetadata[X].lastFetchedAt # None
              /\ stockMetadata[X].lastFetchedAt[1] <= now

\* C14: whatever getHistoricalData returns is in ascending date order: on the
\* fresh path, after a refetch through any adapter, and on the fallback.
C14_ReturnedAscending ==
    \A p \in Procs :
      (HReturned(p) /\ gh[p].op = "getHistoricalData") => Ascending(gh[p].ret)

-----------------------------------------------------------------------------
(* hasRecentData and getStockMetadata *)

\* timeSinceLastFetch <= ONE_DAY_MS
hasRecentDataInclusive(metadata, t) ==
    /\ metadata # Null
    /\ metadata.lastFetchedAt # None
    /\ t - metadata.lastFetchedAt[1] <= ONE_DAY_MS

\* return !!metadata?.lastFetchedAt
hasRecentDataAnyAge(metadata, t) == metadata # Null /\ metadata.lastFetchedAt # None

\* if (!metadata?.lastFetchedAt) return false;
\* return (Date.now() - new Date(metadata.lastFetchedAt).getTime()) < ONE_DAY_MS
hasRecentData(metadata, t) ==
    /\ metadata # Null
    /\ metadata.lastFetchedAt # None
    /\ t - metadata.lastFetchedAt[1] < ONE_DAY_MS

HasRecentDataCall(p, symbol) ==
    HistoryCall(p, NewHistoryFrame("hasRecentData", toUpperCase(symbol), 0, FALSE,
                                   "findRecent"))

\* prisma.stockMetadata.findUnique and the answer
HasRecentData(p) ==
    /\ gh[p].pc = "findRecent"
    /\ gh' = [gh EXCEPT ![p].pc = "returned",
                         ![p].readAt = now,
                         ![p].metaAtRead = stockMetadata[gh[p].symbol],
                         ![p].ret = hasRecentData(stockMetadata[gh[p].symbol], now)]
    /\ UNCHANGED <<now, quoteVars, stockHistory, stockMetadata, committed, budget,
                   snapVars>>

\* metadata?.name
HasName(metadata) == metadata # Null /\ metadata.name # None

\* An upsert that also stamps the row as fetched
UpsertNameStamped(old, symbol, name, t) ==
    IF old = Null
    THEN [NameOnly(symbol) EXCEPT !.name = Option(name), !.lastFetchedAt = Option(t)]
    ELSE [old EXCEPT !.name = Option(name), !.lastFetchedAt = Option(t)]

\* stockMetadata.upsert({update: {name}, create: {symbol, name}})
UpsertName(old, symbol, name, t) ==
    IF old = Null
    THEN [NameOnly(symbol) EXCEPT !.name = Option(name)]
    ELSE [old EXCEPT !.name = Option(name)]

GetStockMetadataCall(p, symbol) ==
    HistoryCall(p, NewHistoryFrame("getStockMetadata", toUpperCase(symbol), 0, FALSE,
                                   "findName"))

\* findUnique; if (metadata?.name) return metadata; else getQuote(upperSymbol)
GetStockMetadataFind(p) ==
    /\ gh[p].pc = "findName"
    /\ LET metadata == stockMetadata[gh[p].symbol]
           f == [gh[p] EXCEPT !.metadata = metadata, !.readAt = now]
       IN IF HasName(metadata)
          THEN /\ gh' = [gh EXCEPT ![p] = [f EXCEPT !.pc = "returned", !.ret = metadata]]
               /\ gq' = gq
          ELSE /\ gh' = [gh EXCEPT ![p] = [f EXCEPT !.pc = "awaitQuote",
                                                    !.quoteCalls = f.quoteCalls + 1]]
               /\ gq' = [gq EXCEPT ![p] = NewQuoteFrame(gh[p].symbol)]
    /\ UNCHANGED <<now, stockQuote, gqs, stockHistory, stockMetadata, committed, budget,
                   snapVars>>

\* if (quote) metadata = await upsert(...); return metadata || {symbol}.
\* A rejected upsert rejects getStockMetadata.
GetStockMetadataUpsert(p) ==
    /\ gh[p].pc = "awaitQuote"
    /\ gq[p].pc = "returned"
    /\ LET symbol == gh[p].symbol
           quote == gq[p].ret
           row == UpsertName(stockMetadata[symbol], symbol, quote.name, now)
       IN IF quote # Null
          THEN \E ok \in BOOLEAN :
                 IF ok
                 THEN /\ stockMetadata' = [stockMetadata EXCEPT ![symbol] = row]
                      /\ gh' = [gh EXCEPT ![p].pc = "returned", ![p].ret = row]
                 ELSE /\ stockMetadata' = stockMetadata
                      /\ gh' = [gh EXCEPT ![p].pc = "threw"]
          ELSE /\ stockMetadata' = stockMetadata
               /\ gh' = [gh EXCEPT ![p].pc = "returned",
                                   ![p].ret = IF gh[p].metadata # Null
                                              THEN gh[p].metadata
                                              ELSE [symbol |-> symbol]]
    /\ UNCHANGED <<now, quoteVars, stockHistory, committed, budget, snapVars>>

(* Metadata lookups, one call after another.  Either symbol may have been *)
(* fetched by a history refetch at the time the behaviour starts.         *)

InitMetadata ==
    /\ now = 2 * ONE_DAY_MS
    /\ budget = [calls |-> MaxCalls, ticks |-> MaxTicks]
    /\ stockQuote = [k \in Keys |-> Null]
    /\ gq = [p \in Procs |-> IdleQuote]
    /\ gqs = [p \in Procs |-> IdleQuotes]
    /\ gh = [p \in Procs |-> IdleHistory]
    /\ portfolioSnapshot = {}
    /\ gs = [p \in Procs |-> IdleSnapshot]
    /\ job = [p \in Procs |-> IdleJob]
    /\ \E fetched \in SUBSET Keys :
         /\ stockHistory = [k \in Keys |-> IF k \in fetched
                                           THEN ReplaceHistory({}, FirstFetch) ELSE {}]
         /\ stockMetadata = [k \in Keys |->
              LET before == IF k = "MSFT" THEN NameOnly(k) ELSE Null
              IN IF k \in fetched
                 THEN UpsertHistoryMetadata(before, k, FirstFetch, now)
                 ELSE before]
         /\ committed = [k \in Keys |-> IF k \in fetched
                                        THEN {CreateMany(FirstFetch)} ELSE {{}}]

NextMetadata ==
    \/ TickHistory
    \/ \E s \in InputSymbols : HasRecentDataCall(Main, s)
    \/ HasRecentData(Main)
    \/ \E s \in InputSymbols : GetStockMetadataCall(Main, s)
    \/ GetStockMetadataFind(Main)
    \/ GetStockMetadataUpsert(Main)
    \/ GetQuoteSteps(Main)

SpecMetadata == InitMetadata /\ [][NextMetadata]_vars

(* One caller asks hasRecentData while another calls getHistoricalData unforced *)

NextFreshness ==
    \/ TickHistory
    \/ \E s \in InputSymbols : HasRecentDataCall(Second, s)
    \/ HasRecentData(Second)
    \/ \E s \in InputSymbols, d \in DayWindows : GetHistoricalDataCall(First, s, d, FALSE)
    \/ HistorySteps(First)

SpecFreshness == InitMetadata /\ [][NextFreshness]_vars

-----------------------------------------------------------------------------
(* Claims about hasRecentData and getStockMetadata *)

\* The answer is true exactly for a row with lastFetchedAt less than 24 h old
C15_Answer ==
    \A p \in Procs :
      (HReturned(p) /\ gh[p].op = "hasRecentData")
        => LET row == gh[p].metaAtRead
           IN gh[p].ret = TRUE
                <=> /\ row # Null
                    /\ row.lastFetchedAt # None
                    /\ gh[p].readAt - row.lastFetchedAt[1] < 24 * 3600 * 1000

\* A step of hasRecentData writes to no table
C15_ReadOnly ==
    \A p \in Procs :
      gh[p].pc = "findRecent"
        => UNCHANGED <<stockQuote, stockHistory, stockMetadata, committed>>

\* C15: hasRecentData(symbol) returns true if and only if a metadata row exists
\* for the uppercased symbol, its lastFetchedAt is set and now - lastFetchedAt is
\* less than 24 h; the call reads only and changes no stored state.
C15_HasRecentData == []C15_Answer /\ [][C15_ReadOnly]_vars

C15_Witness ==
    /\ HReturned(Main)
    /\ gh[Main].op = "hasRecentData"
    /\ gh[Main].ret = FALSE
    /\ gh[Main].metaAtRead # Null
    /\ gh[Main].metaAtRead.lastFetchedAt # None
    /\ gh[Main].readAt - gh[Main].metaAtRead.lastFetchedAt[1] = ONE_DAY_MS

InGetStockMetadata(p) ==
    gh[p].op = "getStockMetadata" /\ gh[p].pc \in {"findName", "awaitQuote"}

\* What a finished getStockMetadata call did
C16_Calls ==
    \A p \in Procs :
      (gh[p].op = "getStockMetadata" /\ gh[p].pc \in {"returned", "threw"})
        => /\ gh[p].tried = <<>>
           /\ IF gh[p].metadata # Null /\ gh[p].metadata.name # None
              THEN /\ gh[p].quoteCalls = 0
                   /\ gq[p] = IdleQuote
                   /\ gh[p].ret = gh[p].metadata
              ELSE /\ gh[p].quoteCalls = 1
                   /\ gq[p].pc = "returned"

\* What a step of a getStockMetadata call may change in the tables
C16_Frame ==
    \A p \in Procs :
      InGetStockMetadata(p)
        => /\ UNCHANGED <<stockHistory, committed>>
           /\ \A k \in Keys :
                \/ stockMetadata'[k] = stockMetadata[k]
                \/ /\ k = gh[p].symbol
                   /\ gq[p].pc = "returned" /\ gq[p].ret # Null
                   /\ stockMetadata'[k] =
                        [(IF stockMetadata[k] = Null THEN NameOnly(k)
                          ELSE stockMetadata[k]) EXCEPT !.name = Option(gq[p].ret.name)]
           /\ \A k \in Keys :
                hasRecentData(stockMetadata'[k], now') = hasRecentData(stockMetadata[k], now')

\* C16: getStockMetadata returns a stored row that has a name without calling
\* getQuote; otherwise it calls getQuote exactly once and, if a quote comes back,
\* creates or updates only the name of the symbol's metadata row.  It never calls
\* a history provider, never changes history rows, and never sets or changes
\* lastFetchedAt.
C16_GetStockMetadata == []C16_Calls /\ [][C16_Frame]_vars

C16_Witness ==
    /\ HReturned(Main)
    /\ gh[Main].op = "getStockMetadata"
    /\ gh[Main].quoteCalls = 1
    /\ gh[Main].metadata # Null
    /\ gh[Main].metadata.lastFetchedAt # None
    /\ gh[Main].ret.name = Option("FMP")
    /\ stockMetadata[gh[Main].symbol] = gh[Main].ret
    /\ stockMetadata[gh[Main].symbol].lastFetchedAt = gh[Main].metadata.lastFetchedAt

-----------------------------------------------------------------------------
(* portfolioSnapshot.js: the tables Portfolio/Holding and PortfolioSnapshot *)

MaxSnapshotCalls == 2 \* snapshot calls started in one behaviour
MaxDailyCalls == 1    \* recordDailySnapshot calls started in one behaviour

Holding(symbol, shares, avgCostBasis) ==
    [symbol |-> symbol, shares |-> shares, avgCostBasis |-> avgCostBasis]

\* The portfolios of each user, with their holdings.  Holdings are stored with
\* uppercased symbols.
Users == {"nobody", "empty", "solo", "mixed"}

portfolio ==
    [u \in Users |->
       CASE u = "nobody" -> <<>>
         [] u = "empty" -> << <<>> >>
         [] u = "solo" -> << <<Holding("AAPL", 10, 150)>> >>
         [] u = "mixed" -> << <<Holding("AAPL", 10, 150), Holding("MSFT", 2, 50)>>,
                              <<Holding("AAPL", 1, 100)>> >>]

\* portfolios.flatMap(p => p.holdings)
RECURSIVE flatMap(_)
flatMap(portfolios) ==
    IF portfolios = <<>> THEN <<>>
    ELSE Head(portfolios) \o flatMap(Tail(portfolios))

\* [...new Set(allHoldings.map(h => h.symbol))]: first occurrences, in order
RECURSIVE Distinct(_)
Distinct(holdings) ==
    IF holdings = <<>> THEN <<>>
    ELSE LET rest == Distinct(SubSeq(holdings, 1, Len(holdings) - 1))
             symbol == holdings[Len(holdings)].symbol
         IN IF \E k \in 1..Len(rest) : rest[k] = symbol THEN rest
            ELSE Append(rest, symbol)

\* today.setHours(0, 0, 0, 0)
Midnight(t) == (t \div ONE_DAY_MS) * ONE_DAY_MS

\* date.setDate(date.getDate() - i)
DaysBefore(date, i) == date - i * ONE_DAY_MS

\* total += terms[k] for every holding k
RECURSIVE Total(_)
Total(terms) ==
    IF terms = <<>> THEN 0 ELSE Head(terms) + Total(Tail(terms))

Snapshot(userId, date, totalValue, totalCost, dayGain) ==
    [userId |-> userId, date |-> date, totalValue |-> totalValue,
     totalCost |-> totalCost, dayGain |-> dayGain]

SameKey(r, userId, date) == r.userId = userId /\ r.date = date

\* portfolioSnapshot.findUnique({where: {userId_date}})
FindSnapshot(table, userId, date) ==
    IF \E r \in table : SameKey(r, userId, date)
    THEN CHOOSE r \in table : SameKey(r, userId, date)
    ELSE Null

\* A create where the upsert is
InsertSnapshot(table, row) == table \cup {row}

\* An upsert whose where has the date and not the user
UpsertSnapshotByDate(table, row) == {r \in table : r.date # row.date} \cup {row}

\* An upsert whose update adds to the stored totalValue
UpsertSnapshotIncrement(table, row) ==
    LET old == FindSnapshot(table, row.userId, row.date)
    IN {r \in table : ~SameKey(r, row.userId, row.date)}
         \cup {IF old = Null THEN row
                ELSE [row EXCEPT !.totalValue = @ + old.totalValue]}

\* An upsert that replaces whatever the user had
UpsertSnapshotOfUser(table, row) ==
    {r \in table : r.userId # row.userId} \cup {row}

\* portfolioSnapshot.upsert({where: {userId_date}, update, create})
UpsertSnapshot(table, row) ==
    {r \in table : ~SameKey(r, row.userId, row.date)} \cup {row}


-----------------------------------------------------------------------------
(* recordDailySnapshot *)

SnapshotCall(p, frame) ==
    /\ Idle(p)
    /\ budget.calls > 0
    /\ budget' = Spend
    /\ gs' = [gs EXCEPT ![p] = frame]
    /\ gq' = [gq EXCEPT ![p] = IdleQuote]
    /\ gqs' = [gqs EXCEPT ![p] = IdleQuotes]
    /\ gh' = [gh EXCEPT ![p] = IdleHistory]
    /\ job' = [job EXCEPT ![p] = IdleJob]
    /\ UNCHANGED <<now, stockQuote, stockHistory, stockMetadata, committed,
                   portfolioSnapshot>>

\* const today = new Date(); today.setHours(0, 0, 0, 0)
RecordFrame(userId, t) ==
    [IdleSnapshot EXCEPT !.pc = "findPortfolios", !.op = "recordDailySnapshot",
                         !.userId = userId, !.today = Midnight(t)]

RecordDailySnapshotCall(p, userId) == SnapshotCall(p, RecordFrame(userId, now))

\* A user without holdings is treated like any other
NoHoldingsIgnored(allHoldings) == FALSE

\* if (allHoldings.length === 0) return null
NoHoldings(allHoldings) == Len(allHoldings) = 0

\* Every holding is valued at its cost
QuoteOrCostIgnoresQuotes(quotes, h) == [price |-> h.avgCostBasis, changeAmount |-> 0]

\* quotes[h.symbol] || { price: h.avgCostBasis, changeAmount: 0 }
QuoteOrCost(quotes, h) ==
    IF h.symbol \in DOMAIN quotes THEN quotes[h.symbol]
    ELSE [price |-> h.avgCostBasis, changeAmount |-> 0]

\* the forEach over allHoldings
DailyTotals(allHoldings, quotes) ==
    LET n == Len(allHoldings)
        quote(k) == QuoteOrCost(quotes, allHoldings[k])
    IN [totalValue |-> Total([k \in 1..n |-> allHoldings[k].shares * quote(k).price]),
        totalCost |-> Total([k \in 1..n |-> allHoldings[k].shares
                                               * allHoldings[k].avgCostBasis]),
        dayGain |-> Total([k \in 1..n |-> allHoldings[k].shares * quote(k).changeAmount])]

\* Without the try: the error leaves recordDailySnapshot
RecordRethrow(f) == [f EXCEPT !.pc = "threw", !.failed = 1]

\* catch (error) { console.error(...); return null; }
RecordCatch(f) == [f EXCEPT !.pc = "returned", !.ret = Null, !.failed = 1]

\* portfolio.findMany, the two early returns, and the call of getQuotes; a
\* rejected query lands in the catch
RecordFindPortfolios(p) ==
    /\ gs[p].pc = "findPortfolios"
    /\ gs[p].op = "recordDailySnapshot"
    /\ \E ok \in BOOLEAN :
         LET portfolios == portfolio[gs[p].userId]
             allHoldings == flatMap(portfolios)
         IN IF ~ok
            THEN /\ gs' = [gs EXCEPT ![p] = RecordCatch(gs[p])]
                 /\ gqs' = gqs
            ELSE IF Len(portfolios) = 0 \/ NoHoldings(allHoldings)
            THEN /\ gs' = [gs EXCEPT ![p].pc = "returned", ![p].ret = Null]
                 /\ gqs' = gqs
            ELSE /\ gs' = [gs EXCEPT ![p].pc = "awaitQuotes",
                                     ![p].allHoldings = allHoldings,
                                     ![p].symbols = Distinct(allHoldings),
                                     ![p].quotesAsked = TRUE]
                 /\ gqs' = [gqs EXCEPT ![p] = [IdleQuotes EXCEPT
                                                 !.pc = "loop",
                                                 !.symbols = Distinct(allHoldings),
                                                 !.pos = 1]]
    /\ UNCHANGED <<now, stockQuote, gq, histVars, portfolioSnapshot, job, budget>>

\* prisma.stockQuote.findUnique at the head of getQuote is outside every try: a
\* rejected lookup leaves getQuote
GetQuoteFindCachedRejected(p) ==
    /\ gq[p].pc = "findCached"
    /\ gq' = [gq EXCEPT ![p].pc = "threw"]
    /\ UNCHANGED <<now, stockQuote, gqs, histVars, budget, snapVars>>

\* the error of getQuote leaves getQuotes, which catches nothing, and lands in
\* the catch of recordDailySnapshot
RecordQuotesRejected(p) ==
    /\ gs[p].pc = "awaitQuotes"
    /\ gqs[p].pc = "await"
    /\ gq[p].pc = "threw"
    /\ gs' = [gs EXCEPT ![p] = RecordCatch(gs[p])]
    /\ gq' = [gq EXCEPT ![p] = IdleQuote]
    /\ gqs' = [gqs EXCEPT ![p] = IdleQuotes]
    /\ UNCHANGED <<now, stockQuote, histVars, portfolioSnapshot, job, budget>>

\* the totals and portfolioSnapshot.upsert; a rejected upsert lands in the
\* catch
RecordUpsert(p) ==
    /\ gs[p].pc = "awaitQuotes"
    /\ gqs[p].pc = "returned"
    /\ LET totals == DailyTotals(gs[p].allHoldings, gqs[p].results)
           row == Snapshot(gs[p].userId, gs[p].today, totals.totalValue,
                           totals.totalCost, totals.dayGain)
       IN \E ok \in BOOLEAN :
            IF ok
            THEN /\ portfolioSnapshot' = UpsertSnapshot(portfolioSnapshot, row)
                 /\ gs' = [gs EXCEPT ![p].pc = "returned", ![p].ret = row,
                                     ![p].replaced = FindSnapshot(portfolioSnapshot,
                                                                  row.userId, row.date)]
            ELSE /\ portfolioSnapshot' = portfolioSnapshot
                 /\ gs' = [gs EXCEPT ![p] = RecordCatch(gs[p])]
    /\ UNCHANGED <<now, quoteVars, histVars, job, budget>>

-----------------------------------------------------------------------------
(* generateHistoricalSnapshots *)

GenerateHistoricalSnapshotsCall(p, userId, days) ==
    SnapshotCall(p, [IdleSnapshot EXCEPT !.pc = "findPortfolios",
                                         !.op = "generateHistoricalSnapshots",
                                         !.userId = userId, !.days = days,
                                         !.ret = <<>>])

\* portfolio.findMany and the early return; a rejected query lands in the
\* catch, which returns []
GenerateFindPortfolios(p) ==
    /\ gs[p].pc = "findPortfolios"
    /\ gs[p].op = "generateHistoricalSnapshots"
    /\ \E ok \in BOOLEAN :
         LET allHoldings == flatMap(portfolio[gs[p].userId])
         IN gs' = [gs EXCEPT ![p] =
                     IF ~ok \/ Len(allHoldings) = 0
                     THEN [@ EXCEPT !.pc = "returned", !.ret = <<>>,
                                    !.failed = IF ok THEN 0 ELSE 1]
                     ELSE [@ EXCEPT !.pc = "findHistory",
                                    !.allHoldings = allHoldings,
                                    !.symbols = Distinct(allHoldings),
                                    !.pos = 1]]
    /\ UNCHANGED <<now, quoteVars, histVars, portfolioSnapshot, job, budget>>

\* one turn of the loop over symbols: stockHistory.findMany({where: {symbol},
\* orderBy: {date: 'asc'}, take: days}); after the last one, today is taken
GenerateFindHistory(p) ==
    /\ gs[p].pc = "findHistory"
    /\ \E ok \in BOOLEAN :
         LET f == gs[p]
             symbol == f.symbols[f.pos]
             history == loadHistory(stockHistory[symbol], f.days)
             g == [f EXCEPT !.historicalData = (symbol :> history) @@ @]
         IN gs' = [gs EXCEPT ![p] =
                     IF ~ok
                     THEN [f EXCEPT !.pc = "returned", !.ret = <<>>, !.failed = 1]
                     ELSE IF f.pos < Len(f.symbols)
                     THEN [g EXCEPT !.pos = f.pos + 1]
                     ELSE [g EXCEPT !.pc = "days", !.today = Midnight(now),
                                    !.i = f.days]]
    /\ UNCHANGED <<now, quoteVars, histVars, portfolioSnapshot, job, budget>>

\* history.find(h => midnight of h.date is date)
FindDay(history, date) ==
    IF \E k \in 1..Len(history) : Midnight(history[k].date) = date
    THEN history[CHOOSE k \in 1..Len(history) :
                   /\ Midnight(history[k].date) = date
                   /\ \A j \in 1..(k - 1) : Midnight(history[j].date) # date]
    ELSE Null

\* A loop that counts the cost of a holding only on a day it has a price for
BackfillTotalsCostOfPriced(allHoldings, historicalData, date) ==
    LET n == Len(allHoldings)
        cost(k) == allHoldings[k].shares * allHoldings[k].avgCostBasis
        dayData(k) == FindDay(historicalData[allHoldings[k].symbol], date)
        prevData(k) == FindDay(historicalData[allHoldings[k].symbol],
                               DaysBefore(date, 1))
        value(k) == IF dayData(k) # Null THEN allHoldings[k].shares * dayData(k).close
                    ELSE cost(k)
        prevValue(k) == IF dayData(k) = Null THEN cost(k)
                        ELSE IF prevData(k) # Null
                        THEN allHoldings[k].shares * prevData(k).close
                        ELSE allHoldings[k].shares * dayData(k).close
    IN [hasData |-> \E k \in 1..n : dayData(k) # Null,
        totalValue |-> Total([k \in 1..n |-> value(k)]),
        totalCost |-> Total([k \in 1..n |-> IF dayData(k) # Null THEN cost(k) ELSE 0]),
        prevDayValue |-> Total([k \in 1..n |-> prevValue(k)])]

\* the loop over allHoldings for one date
BackfillTotals(allHoldings, historicalData, date) ==
    LET n == Len(allHoldings)
        cost(k) == allHoldings[k].shares * allHoldings[k].avgCostBasis
        dayData(k) == FindDay(historicalData[allHoldings[k].symbol], date)
        prevData(k) == FindDay(historicalData[allHoldings[k].symbol],
                               DaysBefore(date, 1))
        value(k) == IF dayData(k) # Null THEN allHoldings[k].shares * dayData(k).close
                    ELSE cost(k)
        prevValue(k) == IF dayData(k) = Null THEN cost(k)
                        ELSE IF prevData(k) # Null
                        THEN allHoldings[k].shares * prevData(k).close
                        ELSE allHoldings[k].shares * dayData(k).close
    IN [hasData |-> \E k \in 1..n : dayData(k) # Null,
        totalValue |-> Total([k \in 1..n |-> value(k)]),
        totalCost |-> Total([k \in 1..n |-> cost(k)]),
        prevDayValue |-> Total([k \in 1..n |-> prevValue(k)])]

\* one turn of the loop for (let i = days; i >= 0; i--); a rejected upsert is
\* skipped
GenerateDay(p) ==
    /\ gs[p].pc = "days"
    /\ LET f == gs[p]
           date == DaysBefore(f.today, f.i)
           totals == BackfillTotals(f.allHoldings, f.historicalData, date)
           row == Snapshot(f.userId, date, totals.totalValue, totals.totalCost,
                           totals.totalValue - totals.prevDayValue)
           next(g) == IF g.i = 0 THEN [g EXCEPT !.pc = "returned", !.ret = g.snapshots]
                      ELSE [g EXCEPT !.i = g.i - 1]
       IN IF totals.hasData \/ f.i = 0
          THEN \E ok \in BOOLEAN :
                 IF ok
                 THEN /\ portfolioSnapshot' = UpsertSnapshot(portfolioSnapshot, row)
                      /\ gs' = [gs EXCEPT ![p] =
                                  next([f EXCEPT
                                          !.snapshots = Append(@, row),
                                          !.replaced =
                                             IF f.i = 0
                                             THEN FindSnapshot(portfolioSnapshot,
                                                               row.userId, row.date)
                                             ELSE @])]
                 ELSE /\ portfolioSnapshot' = portfolioSnapshot
                      /\ gs' = [gs EXCEPT ![p] = next([f EXCEPT !.failed = @ + 1])]
          ELSE /\ portfolioSnapshot' = portfolioSnapshot
               /\ gs' = [gs EXCEPT ![p] = next(f)]
    /\ UNCHANGED <<now, quoteVars, histVars, job, budget>>

-----------------------------------------------------------------------------
(* getPerformanceHistory *)

\* startDate.setDate(startDate.getDate() - days); startDate.setHours(0, 0, 0, 0).
\* The call writes nothing, so it is not counted against the calls of a behaviour.
GetPerformanceHistoryCall(p, userId, days) ==
    /\ Idle(p)
    /\ gs' = [gs EXCEPT ![p] = [IdleSnapshot EXCEPT !.pc = "findSnapshots",
                                                    !.op = "getPerformanceHistory",
                                                    !.userId = userId, !.days = days,
                                                    !.today = Midnight(now),
                                                    !.ret = <<>>]]
    /\ gq' = [gq EXCEPT ![p] = IdleQuote]
    /\ gqs' = [gqs EXCEPT ![p] = IdleQuotes]
    /\ gh' = [gh EXCEPT ![p] = IdleHistory]
    /\ job' = [job EXCEPT ![p] = IdleJob]
    /\ UNCHANGED <<now, stockQuote, stockHistory, stockMetadata, committed,
                   portfolioSnapshot, budget>>

\* findMany({orderBy: {date: 'asc'}}) without a where
findSnapshotsOfAll(table, userId, startDate) == SortAsc(table)

\* portfolioSnapshot.findMany({where: {userId, date: {gte: startDate}},
\* orderBy: {date: 'asc'}})
findSnapshots(table, userId, startDate) ==
    SortAsc({r \in table : r.userId = userId /\ r.date >= startDate})

\* the query and the return; nothing catches a rejected query
GetPerformanceHistory(p) ==
    /\ gs[p].pc = "findSnapshots"
    /\ \E ok \in BOOLEAN :
         LET f == gs[p]
             snapshots == findSnapshots(portfolioSnapshot, f.userId,
                                        DaysBefore(f.today, f.days))
         IN gs' = [gs EXCEPT ![p] =
                     IF ok THEN [f EXCEPT !.pc = "returned", !.ret = snapshots]
                     ELSE [f EXCEPT !.pc = "threw"]]
    /\ UNCHANGED <<now, quoteVars, histVars, portfolioSnapshot, job, budget>>

-----------------------------------------------------------------------------
(* recordAllUserSnapshots *)

\* table User
user == [u \in Users |-> [id |-> u, isActive |-> u # "mixed"]]

\* The orders in which a query without orderBy may give the rows of a set
Orders(S) ==
    {o \in [1..Cardinality(S) -> S] : \A j, k \in 1..Cardinality(S) : o[j] = o[k] => j = k}

\* user.findMany({select: {id: true}}) without a where
findUsersOfAll == Orders(Users)

\* prisma.user.findMany({where: {isActive: true}, select: {id: true}})
findUsers == Orders({u \in Users : user[u].isActive})

RecordAllUserSnapshotsCall(p) ==
    /\ Idle(p)
    /\ budget.calls > 0
    /\ budget' = Spend
    /\ job' = [job EXCEPT ![p] = [IdleJob EXCEPT !.pc = "findUsers"]]
    /\ gs' = [gs EXCEPT ![p] = IdleSnapshot]
    /\ gq' = [gq EXCEPT ![p] = IdleQuote]
    /\ gqs' = [gqs EXCEPT ![p] = IdleQuotes]
    /\ gh' = [gh EXCEPT ![p] = IdleHistory]
    /\ UNCHANGED <<now, stockQuote, stockHistory, stockMetadata, committed,
                   portfolioSnapshot>>

\* the query, and the first turn of for (const user of users); nothing catches
\* a rejected query
RecordAllFindUsers(p) ==
    /\ job[p].pc = "findUsers"
    /\ \E ok \in BOOLEAN, users \in findUsers :
         IF ~ok
         THEN /\ job' = [job EXCEPT ![p].pc = "threw"]
              /\ gs' = gs
         ELSE IF users = <<>>
         THEN /\ job' = [job EXCEPT ![p].pc = "returned"]
              /\ gs' = gs
         ELSE /\ job' = [job EXCEPT ![p].pc = "await", ![p].users = users,
                                    ![p].pos = 1, ![p].called = <<users[1]>>,
                                    ![p].todays = <<Midnight(now)>>]
              /\ gs' = [gs EXCEPT ![p] = RecordFrame(users[1], now)]
    /\ UNCHANGED <<now, quoteVars, histVars, portfolioSnapshot, budget>>

\* await recordDailySnapshot(user.id) has returned: the next turn, or the end
RecordAllNext(p) ==
    /\ job[p].pc = "await"
    /\ gs[p].pc = "returned"
    /\ LET f == [job[p] EXCEPT !.results = Append(@, gs[p].ret),
                               !.failed = @ + gs[p].failed]
       IN IF f.pos < Len(f.users)
          THEN /\ job' = [job EXCEPT ![p] = [f EXCEPT
                                               !.pos = f.pos + 1,
                                               !.called = Append(@, f.users[f.pos + 1]),
                                               !.todays = Append(@, Midnight(now))]]
               /\ gs' = [gs EXCEPT ![p] = RecordFrame(f.users[f.pos + 1], now)]
          ELSE /\ job' = [job EXCEPT ![p] = [f EXCEPT !.pc = "returned"]]
               /\ gs' = gs
    /\ UNCHANGED <<now, quoteVars, histVars, portfolioSnapshot, budget>>

SnapshotSteps(p) ==
    \/ RecordFindPortfolios(p)
    \/ RecordUpsert(p)
    \/ GenerateFindPortfolios(p)
    \/ GenerateFindHistory(p)
    \/ GenerateDay(p)

\* The days an earlier refetch stored for each symbol
StoredDays == [AAPL |-> {<<>>, <<2>>, <<0, 1>>, <<0, 1, 2>>}, MSFT |-> {<<>>, <<1, 2>>}]

InitAt(t, calls, aapl, msft) ==
    /\ now = t
    /\ budget = [calls |-> calls, ticks |-> MaxTicks]
    /\ stockQuote = [k \in Keys |-> Null]
    /\ gq = [p \in Procs |-> IdleQuote]
    /\ gqs = [p \in Procs |-> IdleQuotes]
    /\ gh = [p \in Procs |-> IdleHistory]
    /\ portfolioSnapshot = {}
    /\ gs = [p \in Procs |-> IdleSnapshot]
    /\ job = [p \in Procs |-> IdleJob]
    /\ \E a \in aapl, m \in msft :
         LET fetched == [AAPL |-> MapRows("Yahoo", a), MSFT |-> MapRows("Yahoo", m)]
         IN /\ stockHistory = [k \in Keys |-> ReplaceHistory({}, fetched[k])]
            /\ committed = [k \in Keys |-> {CreateMany(fetched[k])}]
            /\ stockMetadata = [k \in Keys |->
                 IF fetched[k] = <<>> THEN Null
                 ELSE UpsertHistoryMetadata(Null, k, fetched[k], now)]

InitWithHistory(calls, aapl, msft) == InitAt(2 * ONE_DAY_MS, calls, aapl, msft)

(* Backfills, one after another, for every user *)

InitBackfill == InitWithHistory(MaxSnapshotCalls, StoredDays["AAPL"], StoredDays["MSFT"])

NextBackfill ==
    \/ TickHistory
    \/ \E u \in Users, d \in DayWindows : GenerateHistoricalSnapshotsCall(Main, u, d)
    \/ GenerateFindPortfolios(Main)
    \/ GenerateFindHistory(Main)
    \/ GenerateDay(Main)

SpecBackfill == InitBackfill /\ [][NextBackfill]_vars

(* Daily snapshots and backfills of one user who holds one symbol *)

SnapshotUsers == {"solo"}

InitSnapshots == InitWithHistory(MaxSnapshotCalls, {<<>>, <<0, 1, 2>>}, {<<>>})

NextSnapshots ==
    \/ TickHistory
    \/ \E u \in SnapshotUsers : RecordDailySnapshotCall(Main, u)
    \/ \E u \in SnapshotUsers, d \in DayWindows :
         GenerateHistoricalSnapshotsCall(Main, u, d)
    \/ SnapshotSteps(Main)
    \/ GetQuotesNext(Main)
    \/ GetQuotesCollect(Main)
    \/ GetQuoteSteps(Main)

SpecSnapshots == InitSnapshots /\ [][NextSnapshots]_vars

(* Backfills of two users and daily snapshots of one, read back *)

PerformanceUsers == {"solo", "mixed"}

\* The instants at which the calls are made: the day of the last stored row, at
\* midnight and at noon, and the day after
StartTimes == {2 * ONE_DAY_MS, 2 * ONE_DAY_MS + ONE_DAY_MS \div 2, 3 * ONE_DAY_MS}

InitPerformance ==
    \E t \in StartTimes : InitAt(t, MaxSnapshotCalls, {<<0, 1, 2>>}, {<<>>})

NextPerformance ==
    \/ RecordDailySnapshotCall(Main, "solo")
    \/ \E u \in PerformanceUsers, d \in DayWindows :
         GenerateHistoricalSnapshotsCall(Main, u, d)
    \/ \E u \in PerformanceUsers, d \in DayWindows :
         GetPerformanceHistoryCall(Main, u, d)
    \/ SnapshotSteps(Main)
    \/ GetPerformanceHistory(Main)
    \/ GetQuotesNext(Main)
    \/ GetQuotesCollect(Main)
    \/ GetQuoteSteps(Main)

SpecPerformance == InitPerformance /\ [][NextPerformance]_vars

(* recordDailySnapshot alone, for every user, at one instant *)

InitDaily ==
    /\ InitStore
    /\ now = 2 * ONE_DAY_MS
    /\ budget = [calls |-> MaxDailyCalls, ticks |-> MaxTicks]

NextDaily ==
    \/ \E u \in Users : RecordDailySnapshotCall(Main, u)
    \/ RecordFindPortfolios(Main)
    \/ RecordUpsert(Main)
    \/ GetQuotesNext(Main)
    \/ GetQuotesCollect(Main)
    \/ GetQuoteSteps(Main)

SpecDaily == InitDaily /\ [][NextDaily]_vars

(* The scheduled job, while the clock runs *)

InitJob ==
    /\ InitStore
    /\ now = 2 * ONE_DAY_MS
    /\ budget = [calls |-> MaxDailyCalls, ticks |-> MaxTicks]

NextJob ==
    \/ TickHistory
    \/ RecordAllUserSnapshotsCall(Main)
    \/ RecordAllFindUsers(Main)
    \/ RecordAllNext(Main)
    \/ RecordFindPortfolios(Main)
    \/ RecordUpsert(Main)
    \/ GetQuotesNext(Main)
    \/ GetQuotesCollect(Main)
    \/ GetQuoteSteps(Main)

SpecJob == InitJob /\ [][NextJob]_vars

(* Every operation that writes, one call after another: the snapshot calls of *)
(* one user, the scheduled job, forced refetches of AAPL's history and quote  *)
(* fetches                                                                    *)

InitRetention == InitAt(2 * ONE_DAY_MS, MaxSnapshotCalls, {<<0, 1, 2>>}, {<<>>})

NextRetention ==
    \/ RecordDailySnapshotCall(Main, "solo")
    \/ \E d \in DayWindows : GenerateHistoricalSnapshotsCall(Main, "solo", d)
    \/ RecordAllUserSnapshotsCall(Main)
    \/ GetHistoricalDataCall(Main, "aapl", 1, TRUE)
    \/ GetQuoteCall(Main, "aapl")
    \/ RecordAllFindUsers(Main)
    \/ RecordAllNext(Main)
    \/ SnapshotSteps(Main)
    \/ FetchHistory(Main)
    \/ StoreHistory(Main)
    \/ GetStoredHistoricalData(Main)
    \/ GetQuotesNext(Main)
    \/ GetQuotesCollect(Main)
    \/ GetQuoteSteps(Main)

SpecRetention == InitRetention /\ [][NextRetention]_vars

(* The same backfill twice: the second call starts when the first has returned *)

InitTwice == InitAt(2 * ONE_DAY_MS, MaxSnapshotCalls, StoredDays["AAPL"], StoredDays["MSFT"])

NextTwice ==
    \/ TickHistory
    \/ \E u \in PerformanceUsers, d \in DayWindows :
         gs[First].pc = "idle" /\ GenerateHistoricalSnapshotsCall(First, u, d)
    \/ /\ gs[First].pc = "returned"
       /\ gs[Second].pc = "idle"
       /\ GenerateHistoricalSnapshotsCall(Second, gs[First].userId, gs[First].days)
    \/ \E p \in Procs :
         \/ GenerateFindPortfolios(p)
         \/ GenerateFindHistory(p)
         \/ GenerateDay(p)

SpecTwice == InitTwice /\ [][NextTwice]_vars

(* Backfills and reads of the snapshots of every user, nothing else running *)

InitReadOnly ==
    \E t \in StartTimes :
      InitAt(t, MaxSnapshotCalls, StoredDays["AAPL"], StoredDays["MSFT"])

NextReadOnly ==
    \/ \E u \in Users, d \in DayWindows : GenerateHistoricalSnapshotsCall(Main, u, d)
    \/ \E u \in Users, d \in DayWindows : GetPerformanceHistoryCall(Main, u, d)
    \/ GenerateFindPortfolios(Main)
    \/ GenerateFindHistory(Main)
    \/ GenerateDay(Main)
    \/ GetPerformanceHistory(Main)

SpecReadOnly == InitReadOnly /\ [][NextReadOnly]_vars

(* The job with every failure recordDailySnapshot can meet, at one instant *)

NextJobFailures ==
    \/ RecordAllUserSnapshotsCall(Main)
    \/ RecordAllFindUsers(Main)
    \/ RecordAllNext(Main)
    \/ RecordFindPortfolios(Main)
    \/ RecordUpsert(Main)
    \/ RecordQuotesRejected(Main)
    \/ GetQuotesNext(Main)
    \/ GetQuotesCollect(Main)
    \/ GetQuoteFindCachedRejected(Main)
    \/ GetQuoteSteps(Main)

SpecJobFailures == InitJob /\ [][NextJobFailures]_vars

-----------------------------------------------------------------------------
(* Claims about the snapshots *)

SReturned(p) == gs[p].pc = "returned"

Recorded(p) ==
    SReturned(p) /\ gs[p].op = "recordDailySnapshot" /\ gs[p].ret # Null

\* The quote getQuotes obtained for the symbol of holding h, or Null
QuoteOf(p, h) ==
    gqs[p].rets[CHOOSE k \in 1..Len(gqs[p].symbols) : gqs[p].symbols[k] = h.symbol]

PriceOf(p, h) == IF QuoteOf(p, h) # Null THEN QuoteOf(p, h).price ELSE h.avgCostBasis

ChangeOf(p, h) == IF QuoteOf(p, h) # Null THEN QuoteOf(p, h).changeAmount ELSE 0

\* C17: recordDailySnapshot stores for today totalValue = the sum over all
\* holdings of shares * price, totalCost = the sum of shares * avgCostBasis and
\* dayGain = the sum of shares * changeAmount, with price and changeAmount from
\* the quote of the holding's symbol; a holding without a quote counts with
\* price = avgCostBasis and changeAmount = 0.
C17_DailyTotals ==
    \A p \in Procs :
      Recorded(p)
        => LET hs == flatMap(portfolio[gs[p].userId])
               n == Len(hs)
           IN /\ gs[p].ret \in portfolioSnapshot
              /\ gs[p].ret.userId = gs[p].userId
              /\ gs[p].ret.date = Midnight(now)
              /\ gs[p].ret.totalValue = Total([k \in 1..n |-> hs[k].shares * PriceOf(p, hs[k])])
              /\ gs[p].ret.totalCost = Total([k \in 1..n |-> hs[k].shares * hs[k].avgCostBasis])
              /\ gs[p].ret.dayGain = Total([k \in 1..n |-> hs[k].shares * ChangeOf(p, hs[k])])

C17_Witness ==
    /\ Recorded(Main)
    /\ gs[Main].userId = "mixed"
    /\ gqs[Main].rets[1] # Null /\ gqs[Main].rets[1].price = 102
    /\ gqs[Main].rets[2] = Null
    /\ gs[Main].ret.totalValue = 11 * 102 + 2 * 50
    /\ gs[Main].ret.totalCost = 1500 + 100 + 100
    /\ gs[Main].ret.dayGain = 11 * 2

SnapshotsUnique ==
    \A r1, r2 \in portfolioSnapshot :
      (r1.userId = r2.userId /\ r1.date = r2.date) => r1 = r2

\* After a recordDailySnapshot call, the one row of (userId, today) is its row
TodayIsLastRecorded ==
    \A p \in Procs :
      Recorded(p)
        => {r \in portfolioSnapshot : r.userId = gs[p].userId /\ r.date = gs[p].today}
             = {gs[p].ret}

\* C18: after any sequence of recordDailySnapshot and
\* generateHistoricalSnapshots calls the store holds at most one snapshot per
\* (userId, date); a second recordDailySnapshot on the same day leaves exactly
\* one (userId, today) row, with the values of the second call.
C18_OneSnapshotPerDay == SnapshotsUnique /\ TodayIsLastRecorded

C18_Witness ==
    /\ Recorded(Main)
    /\ stockHistory["AAPL"] = {}
    /\ gs[Main].replaced # Null
    /\ gs[Main].replaced.totalValue # gs[Main].replaced.totalCost
    /\ gs[Main].replaced.totalValue # gs[Main].ret.totalValue
    /\ gs[Main].replaced.date = gs[Main].ret.date

\* C19: recordDailySnapshot for a user with no portfolios, or with portfolios
\* that hold nothing, returns null, requests no quotes and writes no snapshot.
C19_NoHoldingsNoSnapshot ==
    /\ \A u \in Users :
         flatMap(portfolio[u]) = <<>> => \A r \in portfolioSnapshot : r.userId # u
    /\ \A p \in Procs :
         (/\ gs[p].op = "recordDailySnapshot"
          /\ flatMap(portfolio[gs[p].userId]) = <<>>
          /\ gs[p].pc # "findPortfolios")
           => /\ SReturned(p)
              /\ gs[p].ret = Null
              /\ ~gs[p].quotesAsked
              /\ gqs[p] = IdleQuotes
              /\ gq[p] = IdleQuote

C19_Witness ==
    /\ SReturned(Main)
    /\ gs[Main].op = "recordDailySnapshot"
    /\ gs[Main].userId = "empty"
    /\ Len(portfolio["empty"]) = 1
    /\ gs[Main].failed = 0
    /\ gs[Main].ret = Null
    /\ portfolioSnapshot = {}

\* The days from today - days to today
RangeOf(p) == {DaysBefore(gs[p].today, i) : i \in 0..gs[p].days}

HasPointOn(holdings, date) ==
    \E k \in 1..Len(holdings) :
      \E r \in stockHistory[holdings[k].symbol] : r.date = date

\* C20: generateHistoricalSnapshots(userId, days) for a user with a holding
\* upserts a snapshot for a day D of [today - days, today] if and only if some
\* holding's symbol has a history row dated D, or D is today.
C20_BackfilledDays ==
    \A p \in Procs :
      (/\ SReturned(p)
       /\ gs[p].op = "generateHistoricalSnapshots"
       /\ gs[p].allHoldings # <<>>
       /\ gs[p].failed = 0)
        => {gs[p].ret[k].date : k \in 1..Len(gs[p].ret)}
             = {D \in RangeOf(p) : D = gs[p].today \/ HasPointOn(gs[p].allHoldings, D)}


-----------------------------------------------------------------------------
(* Claims about the values of a backfill *)

Backfilled(p) ==
    /\ SReturned(p)
    /\ gs[p].op = "generateHistoricalSnapshots"
    /\ gs[p].allHoldings # <<>>
    /\ gs[p].failed = 0

\* The persisted row of the symbol dated D, or Null
PointOn(symbol, D) ==
    IF \E r \in stockHistory[symbol] : r.date = D
    THEN CHOOSE r \in stockHistory[symbol] : r.date = D
    ELSE Null

ValueOn(h, D) ==
    IF PointOn(h.symbol, D) # Null THEN h.shares * PointOn(h.symbol, D).close
    ELSE h.shares * h.avgCostBasis

GainOn(h, D) ==
    IF PointOn(h.symbol, D) # Null /\ PointOn(h.symbol, DaysBefore(D, 1)) # Null
    THEN h.shares * (PointOn(h.symbol, D).close
                       - PointOn(h.symbol, DaysBefore(D, 1)).close)
    ELSE 0

\* C21: in a backfill, on every day D of the range each holding counts with
\* shares * close(D) if the symbol has a persisted row dated D and with shares *
\* avgCostBasis otherwise, however many rows the symbol has stored.
C21_ValueFromPersistedClose ==
    \A p \in Procs :
      Backfilled(p)
        => \A k \in 1..Len(gs[p].ret) :
             LET hs == gs[p].allHoldings
                 D == gs[p].ret[k].date
             IN gs[p].ret[k].totalValue = Total([j \in 1..Len(hs) |-> ValueOn(hs[j], D)])

\* C22: the dayGain of day D is the sum, over the holdings whose symbol has rows
\* on both D and D-1, of shares * (close(D) - close(D-1)); every other holding
\* adds nothing.
C22_DayGainFromConsecutiveCloses ==
    \A p \in Procs :
      Backfilled(p)
        => \A k \in 1..Len(gs[p].ret) :
             LET hs == gs[p].allHoldings
                 D == gs[p].ret[k].date
             IN gs[p].ret[k].dayGain = Total([j \in 1..Len(hs) |-> GainOn(hs[j], D)])

\* C28: every snapshot written by one backfill has the same totalCost, the sum
\* over the user's holdings of shares * avgCostBasis, whatever its date and
\* whether or not a holding had a price that day.
C28_CostIndependentOfDate ==
    \A p \in Procs :
      (gs[p].op = "generateHistoricalSnapshots" /\ gs[p].pc \in {"days", "returned"})
        => LET hs == flatMap(portfolio[gs[p].userId])
               cost == Total([j \in 1..Len(hs) |-> hs[j].shares * hs[j].avgCostBasis])
           IN /\ \A k \in 1..Len(gs[p].snapshots) : gs[p].snapshots[k].totalCost = cost
              /\ \A r \in portfolioSnapshot : r.userId = gs[p].userId => r.totalCost = cost

C28_Witness ==
    /\ Backfilled(Main)
    /\ gs[Main].userId = "mixed"
    /\ Len(gs[Main].ret) = 3
    /\ gs[Main].ret[1].totalValue # gs[Main].ret[1].totalCost
    /\ gs[Main].ret[3].totalValue = gs[Main].ret[3].totalCost
    /\ gs[Main].ret[3].totalCost = 1700
    /\ stockHistory["AAPL"] = {}

-----------------------------------------------------------------------------
(* Claims about the window of getHistoricalData *)

\* When the call of p produced what it returned: the commit of its refetch, or
\* its read of the store
ReturnedAt(p) ==
    IF gh[p].stored THEN stockMetadata[gh[p].symbol].lastFetchedAt[1] ELSE gh[p].readAt

\* C30: getHistoricalData(symbol, {days}) returns only rows with date >= now -
\* days, on the fresh path and after a successful refetch alike.
C30_WindowOnEveryPath ==
    \A p \in Procs :
      (HReturned(p) /\ gh[p].op = "getHistoricalData" /\ gh[p].days \in DayWindows)
        => \A k \in 1..Len(gh[p].ret) :
             gh[p].ret[k].date >= ReturnedAt(p) - gh[p].days * ONE_DAY_MS

-----------------------------------------------------------------------------
(* Claims about getPerformanceHistory *)

PerformanceReturned(p) == SReturned(p) /\ gs[p].op = "getPerformanceHistory"

\* Only rows of the user, none older than the start date, dates strictly rising
C23_Result ==
    \A p \in Procs :
      PerformanceReturned(p)
        => LET ret == gs[p].ret
           IN /\ \A k \in 1..Len(ret) :
                   /\ ret[k].userId = gs[p].userId
                   /\ ret[k].date >= gs[p].today - gs[p].days * ONE_DAY_MS
              /\ \A k \in 1..(Len(ret) - 1) : ret[k].date < ret[k + 1].date

\* A step of getPerformanceHistory writes to no table
C23_ReadOnly ==
    \A p \in Procs :
      gs[p].pc = "findSnapshots"
        => UNCHANGED <<stockQuote, stockHistory, stockMetadata, committed,
                       portfolioSnapshot>>

\* C23: getPerformanceHistory(userId, days) returns only snapshots of that user
\* with date >= (today at midnight) - days, in strictly ascending date order
\* with no two results sharing a date, after any sequence of recordDailySnapshot
\* and generateHistoricalSnapshots calls; it changes no state.
C23_PerformanceHistory == []C23_Result /\ [][C23_ReadOnly]_vars

\* A read that leaves out a row of another user and an older row of the same user
C23_Witness ==
    /\ PerformanceReturned(Main)
    /\ Len(gs[Main].ret) >= 2
    /\ \E r \in portfolioSnapshot : r.userId # gs[Main].userId
    /\ \E r \in portfolioSnapshot :
         /\ r.userId = gs[Main].userId
         /\ r.date < gs[Main].today - gs[Main].days * ONE_DAY_MS

-----------------------------------------------------------------------------
(* Claims about recordAllUserSnapshots *)

JobReturned(p) == job[p].pc = "returned"

HasHoldings(u) == Len(flatMap(portfolio[u])) > 0

\* Every active user is passed to recordDailySnapshot once, and nobody else is
C25_OncePerActiveUser ==
    \A p \in Procs :
      LET called == job[p].called
      IN /\ \A k \in 1..Len(called) : user[called[k]].isActive
         /\ \A j, k \in 1..Len(called) : called[j] = called[k] => j = k
         /\ JobReturned(p) => {called[k] : k \in 1..Len(called)}
                                = {u \in Users : user[u].isActive}

\* A call of recordDailySnapshot is made only when the one before has returned
C25_OneAtATime ==
    \A p \in Procs :
      job'[p].called # job[p].called => gs[p].pc \in {"idle", "returned"}

C25_RowUnlessRejected ==
    \A p \in Procs :
      JobReturned(p)
        => /\ Len(job[p].results) = Len(job[p].called)
           /\ \A k \in 1..Len(job[p].called) :
                LET u == job[p].called[k]
                    row == job[p].results[k]
                IN /\ row # Null
                     => /\ HasHoldings(u)
                        /\ row.userId = u
                        /\ row.date = job[p].todays[k]
                        /\ FindSnapshot(portfolioSnapshot, u, job[p].todays[k]) = row
                   /\ (HasHoldings(u) /\ job[p].failed = 0) => row # Null

-----------------------------------------------------------------------------
(* Claims about the life of a snapshot row *)

\* A row that is in the table is in it, for the same user and date, after any step
C24_RowsStay ==
    \A r \in portfolioSnapshot :
      FindSnapshot(portfolioSnapshot', r.userId, r.date) # Null

-----------------------------------------------------------------------------
(* Claims about concurrent callers of getQuote *)

Wrote(p) == gq[p].wrote = "ok"

\* The row holds the fields of quoteData and nothing of another quote
RowOf(row, quoteData) == row # Null /\ row = QuoteRow(quoteData, row.updatedAt)

\* The symbol has at most the one row, and once a caller has written, the row
\* is, field for field, the quote of a caller that wrote
C26_OneWholeRow ==
    /\ stockQuote["MSFT"] = Null
    /\ (\A p \in Procs : ~Wrote(p)) => stockQuote["AAPL"] \in {Null, StaleQuote}
    /\ (\E p \in Procs : Wrote(p))
         => \E p \in Procs : Wrote(p) /\ RowOf(stockQuote["AAPL"], gq[p].quoteData)

\* A caller that a provider answered returns the quote it fetched, whatever the
\* other caller did and whatever became of its upsert; a caller that no
\* provider answered returns the row it found at its own lookup
C26_EveryCallerServed ==
    \A p \in Procs :
      Returned(p)
        => IF gq[p].quoteData # Null
           THEN /\ gq[p].ret = gq[p].quoteData
                /\ gq[p].ret.symbol = "AAPL"
                /\ gq[p].ret.price > 0
           ELSE /\ gq[p].ret = gq[p].cached
                /\ AllSourcesCalled(p) \/ gq[p].calls = <<>>

\* C26: when several callers run getQuote for the same symbol concurrently with
\* a stale or absent cache, each may issue its own provider calls, but under
\* every interleaving the store ends with exactly one Quote row for the symbol,
\* equal to the Quote fetched by one of the callers, and every caller returns
\* the valid Quote it fetched (none fails because of the race).
C26_ConcurrentGetQuote == C26_OneWholeRow /\ C26_EveryCallerServed

\* Both callers went past the cache check, fetched from different providers and
\* wrote; the row is the quote of one of them
C26_Witness ==
    /\ \A p \in Procs : Returned(p) /\ Wrote(p) /\ gq[p].cached \in {Null, StaleQuote}
    /\ gq["A"].calls # gq["B"].calls
    /\ gq["A"].ret.price # gq["B"].ret.price
    /\ RowOf(stockQuote["AAPL"], gq["A"].quoteData)

-----------------------------------------------------------------------------
(* Claims about the quote adapters *)

\* The fields of what an adapter builds
IsQuote(result) ==
    DOMAIN result = {"name", "price", "changeAmount", "volume", "marketCap", "source"}

\* What the adapter gave for the last request is null or has the fields of a
\* Quote; it is null after a transport error and after an error envelope
C27_QuoteOrNull ==
    \A p \in Procs :
      gq[p].response # Null
        => /\ gq[p].result = Null \/ IsQuote(gq[p].result)
           /\ gq[p].response.kind \in {"error", "envelope", "empty"}
                => gq[p].result = Null

\* While an adapter runs no table is written
C27_NoWrite ==
    \A p \in Procs :
      gq[p].pc = "inflight"
        => UNCHANGED <<stockQuote, stockHistory, stockMetadata, committed,
                       portfolioSnapshot>>

\* C27: each quote adapter returns either a normalized Quote or null for every
\* provider outcome - transport error, malformed payload, provider error
\* envelope - and never lets an exception reach getQuote; it writes nothing to
\* the persistent store.
C27_AdaptersNeverThrow == []C27_QuoteOrNull /\ [][C27_NoWrite]_vars

\* All five adapters were asked; the last met a transport error, gave null, and
\* getQuote went on to its delay
C27_Witness ==
    /\ gq[Main].pc = "delay"
    /\ gq[Main].calls = sources
    /\ gq[Main].response.kind = "error"
    /\ gq[Main].result = Null

-----------------------------------------------------------------------------
(* Claims about the order of provider requests *)

NoRepeat(s) == \A j, k \in 1..Len(s) : s[j] = s[k] => j = k

\* Never two requests of one call in flight, no provider asked twice, at most
\* five attempts for a quote and three for a history
C29_OneAtATime ==
    \A p \in Procs :
      /\ Cardinality(gq[p].inFlight) <= 1
      /\ Cardinality(gh[p].inFlight) <= 1
      /\ NoRepeat(gq[p].calls) /\ Len(gq[p].calls) <= 5
      /\ NoRepeat(gh[p].tried) /\ Len(gh[p].tried) <= 3

\* A request after the first leaves only when the one before has been answered
\* and the delay between them has passed
C29_AfterDelay ==
    \A p \in Procs :
      /\ (Len(gq[p].calls) >= 1 /\ Len(gq'[p].calls) = Len(gq[p].calls) + 1)
           => /\ gq[p].inFlight = {}
              /\ now >= gq[p].endedAt + 100
      /\ (Len(gh[p].tried) >= 1 /\ Len(gh'[p].tried) = Len(gh[p].tried) + 1)
           => /\ gh[p].inFlight = {}
              /\ now >= gh[p].endedAt + historyDelays[Len(gh[p].tried) + 1]

\* C29: within one getQuote call and within one history refetch, provider
\* requests are strictly sequential: each adapter is invoked at most once, the
\* next adapter is started only after the previous attempt has completed and
\* the delay has elapsed, and no two provider requests of the same call are
\* ever in flight together; hence each call makes at most 5 (quotes) or 3
\* (history) provider attempts.
C29_SequentialRequests == []C29_OneAtATime /\ [][C29_AfterDelay]_vars

\* The third history request is in flight, 3000 ms or more after the call began
C29_Witness ==
    /\ gh[Main].pc = "inflight"
    /\ gh[Main].tried = historySources
    /\ gh[Main].inFlight = {"FMP"}
    /\ gh[Main].startedAt >= gh[Main].endedAt + 1000
    /\ now >= CACHE_TTL_MS + 4000

-----------------------------------------------------------------------------
(* Claims about a refetch that stores nothing *)

\* No step of a call that does not commit changes the rows or the metadata
C31_NothingChanged ==
    \A p \in Procs :
      (/\ gh[p].op = "getHistoricalData"
       /\ gh[p].pc \in {"fetch", "transaction", "findMany"}
       /\ ~gh'[p].stored)
        => UNCHANGED <<stockHistory, stockMetadata>>

\* lastFetchedAt is set only together with a committed, non-empty set of rows
C31_StampedByCommitOnly ==
    \A k \in Keys :
      (stockMetadata[k] # Null /\ stockMetadata[k].lastFetchedAt # None)
        => /\ stockHistory[k] # {}
           /\ stockHistory[k] \in committed[k]

\* A call that found lastFetchedAt old and then stored nothing leaves it as old
C31_StillStale ==
    \A p \in Procs :
      (/\ HReturned(p)
       /\ gh[p].op = "getHistoricalData"
       /\ gh[p].tried # <<>>
       /\ ~gh[p].stored)
        => stockMetadata[gh[p].symbol] = gh[p].metadata
             \/ (gh[p].forceRefresh /\ gh[p].metadata = Null)

\* C31: a history refetch in which no adapter yields a non-empty sequence, or
\* whose store transaction fails, leaves the symbol's persisted HistoryPoints
\* and its SymbolMetadata (including lastFetchedAt) unchanged; consequently the
\* next non-forced getHistoricalData call attempts the providers again instead
\* of treating the data as fresh.
C31_FailedRefetchChangesNothing ==
    [](C31_StampedByCommitOnly /\ C31_StillStale) /\ [][C31_NothingChanged]_vars

\* A non-forced call a day after the last commit found the data old, fetched
\* rows, and its transaction failed: rows and lastFetchedAt are as before
C31_Witness ==
    /\ HReturned(Main)
    /\ ~gh[Main].forceRefresh
    /\ gh[Main].checked = "old"
    /\ TransactionFailed(Main)
    /\ stockMetadata[gh[Main].symbol].lastFetchedAt = Option(now - ONE_DAY_MS)
    /\ stockHistory[gh[Main].symbol] # {}

-----------------------------------------------------------------------------
(* Claims about the rows getQuote writes *)

\* Every row is under its own uppercased symbol and has a price above 0
C32_RowsValid ==
    \A k \in Keys :
      stockQuote[k] # Null => stockQuote[k].symbol = k /\ stockQuote[k].price > 0

\* A step that changes the table is the upsert of a call whose adapter returned
\* price > 0, and changes the row of that call's uppercased symbol only
C32_WritesOwnRow ==
    stockQuote' # stockQuote
      => \E p \in Procs :
           /\ gq[p].pc = "upsert"
           /\ gq[p].valid # <<>>
           /\ gq[p].symbol \in Keys
           /\ gq[p].quoteData.price > 0
           /\ stockQuote'[gq[p].symbol] = QuoteRow(gq[p].quoteData, now)
           /\ \A k \in Keys \ {gq[p].symbol} : stockQuote'[k] = stockQuote[k]

\* C32: every Quote row that getQuote writes to the store has price > 0 and is
\* keyed by the uppercased symbol; getQuote never writes a row for any other
\* symbol and never writes when no adapter returned price > 0.
C32_OnlyValidQuotesStored == []C32_RowsValid /\ [][C32_WritesOwnRow]_vars

\* "aapl" was stored under AAPL; a later call for MSFT, to which some adapter
\* answered with price 0 and none with more, wrote nothing
C32_Witness ==
    /\ stockQuote["AAPL"] # Null
    /\ stockQuote["MSFT"] = Null
    /\ Returned(Main)
    /\ gq[Main].symbol = "MSFT"
    /\ AllSourcesCalled(Main)
    /\ gq[Main].valid = <<>>
    /\ gq[Main].ret = Null

-----------------------------------------------------------------------------
(* Claims about a backfill after the day's snapshot was recorded *)

\* C33: once recordDailySnapshot has stored today's snapshot from live quotes, a
\* later generateHistoricalSnapshots call for the same user on the same day,
\* with no HistoryPoint dated today for any held symbol, leaves today's
\* totalValue and dayGain as they were recorded.
C33_LiveSnapshotKept ==
    \A p \in Procs :
      (/\ Backfilled(p)
       /\ gs[p].replaced # Null
       /\ ~HasPointOn(gs[p].allHoldings, gs[p].today))
        => LET row == FindSnapshot(portfolioSnapshot, gs[p].userId, gs[p].today)
           IN /\ row.totalValue = gs[p].replaced.totalValue
              /\ row.dayGain = gs[p].replaced.dayGain

-----------------------------------------------------------------------------
(* Claims about repeating a backfill *)

\* The second call has taken its today, and it is the day of the first call
SameDay == gs[Second].pc \in {"days", "returned"} /\ gs[Second].today = gs[First].today

\* The second call returns what the first returned, in ascending date order
C34_SameResult ==
    (Backfilled(First) /\ Backfilled(Second) /\ SameDay)
      => /\ gs[Second].ret = gs[First].ret
         /\ \A k \in 1..(Len(gs[Second].ret) - 1) :
              gs[Second].ret[k].date < gs[Second].ret[k + 1].date

\* No step of the second call changes the table the first call left
C34_StoreKept ==
    (Backfilled(First) /\ SameDay) => portfolioSnapshot' = portfolioSnapshot

\* C34: generateHistoricalSnapshots is idempotent: calling it twice on the same
\* day with unchanged holdings and unchanged persisted history leaves the
\* snapshot store exactly as after the first call and returns the same sequence
\* of (date, totalValue, totalCost, dayGain), in ascending date order.
C34_BackfillIdempotent == []C34_SameResult /\ [][C34_StoreKept]_vars

\* Two calls for the user with two symbols, hours apart on one day, each
\* returning three snapshots
C34_Witness ==
    /\ Backfilled(First)
    /\ Backfilled(Second)
    /\ SameDay
    /\ gs[First].userId = "mixed"
    /\ Len(gs[Second].ret) = 3
    /\ now > gs[First].today
    /\ portfolioSnapshot = SeqRows(gs[First].ret)

-----------------------------------------------------------------------------
(* Claims about what the snapshot operations touch *)

ReadsSnapshots == {"generateHistoricalSnapshots", "getPerformanceHistory"}

\* A step the caller takes inside one of the two operations
InsideRead(p) ==
    /\ gs[p].op \in ReadsSnapshots
    /\ gs[p].pc \notin {"idle", "returned", "threw"}
    /\ gs'[p] # gs[p]

\* The rows the step added, removed or replaced
Touched == (portfolioSnapshot' \ portfolioSnapshot) \cup (portfolioSnapshot \ portfolioSnapshot')

\* The step asks no provider and leaves quotes, history and metadata alone; what
\* it writes is a snapshot of the caller's user dated within the window
C35_StepFrame ==
    \A p \in Procs :
      InsideRead(p)
        => /\ UNCHANGED <<stockQuote, stockHistory, stockMetadata, committed>>
           /\ UNCHANGED <<gq, gqs, gh>>
           /\ gs[p].op = "getPerformanceHistory" => Touched = {}
           /\ ~HasHoldings(gs[p].userId) => Touched = {}
           /\ \A r \in Touched : r.userId = gs[p].userId /\ r.date \in RangeOf(p)

\* For a user without holdings the backfill returns the empty sequence
C35_NoHoldingsNoResult ==
    \A p \in Procs :
      (/\ SReturned(p)
       /\ gs[p].op = "generateHistoricalSnapshots"
       /\ ~HasHoldings(gs[p].userId))
        => gs[p].ret = <<>>

\* C35: generateHistoricalSnapshots and getPerformanceHistory issue no provider
\* request and leave Quote, HistoryPoint, SymbolMetadata and Holding rows
\* unchanged; generateHistoricalSnapshots writes only PortfolioSnapshot rows of
\* the given userId with dates in [today - days, today], and for a user with no
\* holdings it writes nothing and returns the empty sequence.
C35_SnapshotsOnly == []C35_NoHoldingsNoResult /\ [][C35_StepFrame]_vars

\* A backfill for one user has written where another user's snapshots of the
\* same days are stored, and those are all still there
C35_Witness ==
    /\ Backfilled(Main)
    /\ gs[Main].userId = "mixed"
    /\ Len(gs[Main].ret) >= 2
    /\ \A k \in 1..Len(gs[Main].ret) :
         \E r \in portfolioSnapshot : r.userId = "solo" /\ r.date = gs[Main].ret[k].date

-----------------------------------------------------------------------------
(* Claims about the two freshness tests *)

\* The call went to the persisted rows without asking a provider
ServedFromStore(f) == f.pc = "findMany" /\ f.tried = <<>>

\* getHistoricalData's test sends the call to the persisted rows exactly when
\* hasRecentData, asked at that instant, answers true
C36_CheckAgrees ==
    \A p \in Procs :
      (gh[p].pc = "findMetadata" /\ gh'[p].pc # "findMetadata")
        => (ServedFromStore(gh'[p])
              <=> hasRecentData(stockMetadata[gh[p].symbol], now))

\* hasRecentData answers true exactly when getHistoricalData's test, made at
\* that instant, passes
C36_AnswerAgrees ==
    \A p \in Procs :
      (gh[p].pc = "findRecent" /\ gh'[p].pc = "returned")
        => (gh'[p].ret <=> HasRecent(stockMetadata[gh[p].symbol], now))

\* At every instant and for every symbol the two tests agree
C36_SameRule ==
    \A k \in Keys : hasRecentData(stockMetadata[k], now) <=> HasRecent(stockMetadata[k], now)

\* C36: hasRecentData and getHistoricalData apply the same freshness rule: at
\* the same instant, hasRecentData(symbol) is true exactly when
\* getHistoricalData(symbol, {forceRefresh: false}) would serve from the
\* persisted set without any provider request.
C36_SameFreshnessRule ==
    []C36_SameRule /\ [][C36_CheckAgrees]_vars /\ [][C36_AnswerAgrees]_vars

\* A row stamped exactly 24 h ago: at one instant hasRecentData has answered
\* false and getHistoricalData has gone on to the providers
C36_Witness ==
    /\ gh[Second].op = "hasRecentData"
    /\ gh[Second].pc = "returned"
    /\ gh[Second].ret = FALSE
    /\ gh[Second].readAt = now
    /\ gh[First].op = "getHistoricalData"
    /\ gh[First].pc = "fetch"
    /\ gh[First].tried = <<>>
    /\ gh[First].symbol = gh[Second].symbol
    /\ gh[First].metadata = gh[Second].metaAtRead
    /\ gh[First].metadata # Null
    /\ gh[First].metadata.lastFetchedAt = Option(now - ONE_DAY_MS)

-----------------------------------------------------------------------------
(* Claims about failures inside recordDailySnapshot *)

InRecord(p) == gs[p].op = "recordDailySnapshot"

\* recordDailySnapshot never ends by throwing, and a call that met a failure
\* has returned null
C37_NeverThrows ==
    \A p \in Procs :
      InRecord(p)
        => /\ gs[p].pc # "threw"
           /\ gs[p].failed > 0 => (SReturned(p) /\ gs[p].ret = Null)

\* The step on which the failure happens, and every step of the call in which
\* it happens, leaves the snapshot rows as they were
C37_FailureWritesNothing ==
    \A p \in Procs :
      /\ (InRecord(p) /\ gs'[p].failed > gs[p].failed)
           => portfolioSnapshot' = portfolioSnapshot
      /\ (InRecord(p) /\ portfolioSnapshot' # portfolioSnapshot)
           => (gs'[p].failed = 0 /\ gs'[p].ret # Null)

\* The loop of recordAllUserSnapshots goes on to the next user whatever the
\* call for this one returned
C37_JobGoesOn ==
    \A p \in Procs :
      (job[p].pc = "await" /\ job'[p] # job[p])
        => /\ job'[p].pc \in {"await", "returned"}
           /\ job[p].pos < Len(job[p].users)
                => /\ job'[p].pos = job[p].pos + 1
                   /\ gs'[p] = RecordFrame(job[p].users[job[p].pos + 1], now)

\* A job that has returned has the result of a call for each of its users
C37_EveryUserCalled ==
    \A p \in Procs :
      JobReturned(p)
        => /\ Len(job[p].results) = Len(job[p].users)
           /\ job[p].called = job[p].users

\* C37: recordDailySnapshot never throws: any failure while loading holdings,
\* fetching quotes or upserting makes it return null with no snapshot row
\* changed; in recordAllUserSnapshots a failure for one user therefore does not
\* prevent the calls for later users.
C37_FailuresContained ==
    /\ [](C37_NeverThrows /\ C37_EveryUserCalled)
    /\ [][C37_FailureWritesNothing /\ C37_JobGoesOn]_vars

\* The job has returned; the calls for its first two users met a failure, and
\* the third user's snapshot is stored
C37_Witness ==
    /\ JobReturned(Main)
    /\ job[Main].failed = 2
    /\ Len(job[Main].results) = 3
    /\ job[Main].results[1] = Null
    /\ job[Main].results[2] = Null
    /\ job[Main].results[3] # Null
    /\ job[Main].results[3] \in portfolioSnapshot

-----------------------------------------------------------------------------
(* Claims about two refetches of one symbol at once *)

Succeeded(p) == HReturned(p) /\ gh[p].stored

BothSucceeded == \A p \in Procs : Succeeded(p) /\ gh[p].symbol = "AAPL"

\* The rows are those of one of the two batches, one row per date of the batch
C38_OneWritersSet ==
    BothSucceeded
      => \E p \in Procs : stockHistory["AAPL"] = CreateMany(gh[p].historyData[1])

\* The rows and the metadata's dates are those one and the same refetch wrote
C38_OneWritersRowsAndMetadata ==
    BothSucceeded
      => \E p \in Procs :
           LET data == gh[p].historyData[1]
           IN /\ stockHistory["AAPL"] = CreateMany(data)
              /\ stockMetadata["AAPL"].historyStartDate = Option(data[Len(data)].date)
              /\ stockMetadata["AAPL"].historyEndDate = Option(data[1].date)

\* The metadata's start and end are the least and the greatest date of the rows
C38_MetadataDescribesSet ==
    BothSucceeded
      => /\ stockMetadata["AAPL"].historyStartDate = Option(MinDate(stockHistory["AAPL"]))
         /\ stockMetadata["AAPL"].historyEndDate = Option(MaxDate(stockHistory["AAPL"]))

\* C38: when two history refetches for the same symbol run concurrently and both
\* succeed, the final persisted HistoryPoint set of the symbol equals the set
\* fetched by exactly one of them (never a union or mixture of the two), and the
\* final SymbolMetadata start/end dates describe that same set.
C38_LastWriterWins == C38_OneWritersSet /\ C38_MetadataDescribesSet

=============================================================================
